---- MODULE Spec2Model ----
(***************************************************************************)
(* The incremental GHL -> HubSpot migration engine: the staging store      *)
(* (source collections, GHLHubspotIdMap, hubspot_transfer_checkpoints,     *)
(* hubspot_failed_migrations), the destination, and the entity migrators   *)
(* that scan one staged collection, create destination objects and         *)
(* checkpoint their progress.                                              *)
(*                                                                         *)
(* One behaviour studies one stream: `entity` names the migrator, `source` *)
(* is its staged collection in insertion (_id) order, and the operator     *)
(* invokes the migrator up to MaxRuns times with any flags.  Every await   *)
(* that has a durable effect (a destination create, an identity-map write, *)
(* a checkpoint write) is a step of its own, so that a process kill can    *)
(* fall between any two of them.                                           *)
(***************************************************************************)
EXTENDS Integers, Sequences, FiniteSets, TLC

VARIABLES
    entity,       \* which migrator this behaviour runs
    source,       \* the staged collection, in _id order; _id = index
    dealstage,    \* "configured" | "resolvable" | "none": --dealstage / destination default
    idMap,        \* GHLHubspotIdMap: set of [ghlId, objectTypeId, hubspotId]
    checkpoints,  \* hubspot_transfer_checkpoints: checkpoint id -> document
    failures,     \* hubspot_failed_migrations: set of [entityType, ghlId, reason]
    hubspot,      \* destination objects in creation order; hubspot id = index
    run,          \* the invocation in progress (pc = "idle" when none)
    runs,         \* the finished invocations, oldest first
    associations, \* deal -> contact associations at the destination: [deal, contact]
    peer,         \* the contact migrator running beside this stream: its position
    archived,     \* the destination objects that were archived: set of hubspot ids
    del           \* the --delete-import-tag invocation (pc = "idle" before any)

vars == <<entity, source, dealstage, idMap, checkpoints, failures, hubspot, run, runs,
          associations, peer, archived, del>>

(***************************************************************************)
(* Bounds of the model.                                                    *)
(***************************************************************************)
MaxRecords == 2     \* staged records of the stream
MaxRuns == 2        \* invocations of the migrator in one behaviour
MaxLimit == 1       \* largest --limit tried (0 stands for "no --limit")
MaxResetRecords == 1 \* staged records of a stream on which resets are studied
SearchLimit == 1    \* objects in one page of a destination search (100 in the program)

(***************************************************************************)
(* Program constants.                                                      *)
(***************************************************************************)
OBJECT_TYPE_ID == "opportunity"
DEFAULT_APPOINTMENT_OBJECT_TYPE_ID == "meeting"
DEFAULT_OBJECT_TYPE_ID == "calendars"

CursorEntities == {"opportunity", "appointment", "calendar"}

DEFAULT_CHECKPOINT_ID(e) ==
    CASE e = "opportunity" -> "hubspot_opportunities"
      [] e = "appointment" -> "hubspot_appointments"
      [] e = "calendar" -> "hubspot_calendars"
      [] e = "contact" -> "hubspot_contacts"
      [] e = "note" -> "hubspot_notes"
      [] e = "conversation" -> "hubspot_conversations"

CheckpointIds ==
    {"hubspot_opportunities", "hubspot_appointments", "hubspot_calendars",
     "hubspot_contacts", "hubspot_notes", "hubspot_conversations"}

\* the object type a cursor migrator reads and writes its own mappings under
MapObjectType(e) ==
    CASE e = "opportunity" -> OBJECT_TYPE_ID
      [] e = "appointment" -> DEFAULT_APPOINTMENT_OBJECT_TYPE_ID
      [] e = "calendar" -> DEFAULT_OBJECT_TYPE_ID

\* the destination object type a cursor migrator creates
DestObjectType(e) ==
    CASE e = "opportunity" -> "deals"
      [] e = "appointment" -> "meetings"
      [] e = "calendar" -> "calendars"

(***************************************************************************)
(* Source records.  A record's source id is its position in the collection *)
(* (the collections carry a unique index on id), unless its id field is    *)
(* null/absent ("null") or falsy but present ("empty").                    *)
(*   tags      contact.tags: "none", or resolving them at the destination  *)
(*             "throws" (an error other than an unsupported endpoint)      *)
(*   contactId 0 = none, MappedContact = a contact already in the identity *)
(*             map, UnmappedContact = a contact with no mapping            *)
(*   badDate   a mapped custom field carries an unparseable date           *)
(*   create    what the destination create call does for this record:      *)
(*             "ok" returns an id, "noid" returns without id, "fail" throws*)
(***************************************************************************)
MappedContact == 101
UnmappedContact == 102
MappedContactHubspotId == 900
UnmappedContactHubspotId == 901

Rec(id, tags, contactId, badDate, create) ==
    [id |-> id, tags |-> tags, contactId |-> contactId, badDate |-> badDate, create |-> create]

OpportunityRecords ==
    { Rec("set", "none", 0, FALSE, "ok"),
      Rec("empty", "none", 0, FALSE, "ok"),
      Rec("set", "throws", 0, FALSE, "ok"),
      Rec("set", "none", MappedContact, FALSE, "ok"),
      Rec("set", "none", UnmappedContact, FALSE, "ok"),
      Rec("set", "none", 0, TRUE, "ok"),
      Rec("set", "none", 0, FALSE, "fail"),
      Rec("set", "none", 0, FALSE, "noid") }

AppointmentRecords ==
    { Rec("set", "none", 0, FALSE, "ok"),
      Rec("null", "none", 0, FALSE, "ok"),
      Rec("empty", "none", 0, FALSE, "ok"),
      Rec("set", "none", MappedContact, FALSE, "ok"),
      Rec("set", "none", 0, FALSE, "fail"),
      Rec("set", "none", 0, FALSE, "noid") }

CalendarRecords ==
    { Rec("set", "none", 0, FALSE, "ok"),
      Rec("null", "none", 0, FALSE, "ok"),
      Rec("empty", "none", 0, FALSE, "ok"),
      Rec("set", "none", 0, FALSE, "fail"),
      Rec("set", "none", 0, FALSE, "noid") }

(***************************************************************************)
(* Contacts.  email: the contact has a non-empty email; badDate: its       *)
(* "created" custom field carries an unparseable date; create: what the    *)
(* destination contact create does; company: what the companion company    *)
(* does ("ok", "fail" = the company create throws, "assocFail" = the       *)
(* company is created and the company -> contact association throws).      *)
(***************************************************************************)
Contact(id, email, badDate, create, company) ==
    [id |-> id, email |-> email, badDate |-> badDate, create |-> create, company |-> company]

ContactRecords ==
    { Contact("set", TRUE, FALSE, "ok", "ok"),
      Contact("set", FALSE, FALSE, "ok", "ok"),
      Contact("null", FALSE, FALSE, "ok", "ok"),
      Contact("set", TRUE, TRUE, "ok", "ok"),
      Contact("set", TRUE, FALSE, "fail", "ok"),
      Contact("set", TRUE, FALSE, "ok", "fail"),
      Contact("set", TRUE, FALSE, "ok", "assocFail") }

(***************************************************************************)
(* Notes.  relation: the note points at a contact that is in the identity  *)
(* map ("mapped"), at one that is not ("unmapped"), or only at an          *)
(* appointment that does not exist ("dangling"); body: it has a non-empty  *)
(* body; create: what the destination note create does.                    *)
(***************************************************************************)
Note(relation, body, create) == [relation |-> relation, body |-> body, create |-> create]

NoteRecords ==
    { Note("mapped", TRUE, "ok"),
      Note("unmapped", TRUE, "ok"),
      Note("dangling", TRUE, "ok"),
      Note("mapped", FALSE, "ok"),
      Note("mapped", TRUE, "fail") }

(***************************************************************************)
(* Conversations.  contact: the conversation's contact is in the identity  *)
(* map or not; messages: the class of each message and what its create     *)
(* does: "sms" (created), "smsFail" (the create throws), "other" (matches  *)
(* no class).  The id of message i of conversation k is MessageId(k, i).   *)
(***************************************************************************)
Conversation(contact, messages) == [contact |-> contact, messages |-> messages]

ConversationRecords ==
    { Conversation("mapped", <<"sms", "sms">>),
      Conversation("mapped", <<"sms", "other">>),
      Conversation("mapped", <<"other", "sms">>),
      Conversation("mapped", <<"smsFail">>),
      Conversation("unmapped", <<"sms">>),
      Conversation("mapped", <<>>) }

MessageId(k, i) == 10 * k + i

RecordsOf(e) ==
    CASE e = "opportunity" -> OpportunityRecords
      [] e = "appointment" -> AppointmentRecords
      [] e = "calendar" -> CalendarRecords
      [] e = "contact" -> ContactRecords
      [] e = "note" -> NoteRecords
      [] e = "conversation" -> ConversationRecords

SeqsUpTo(S, n) == UNION { [1..k -> S] : k \in 0..n }

\* the value of record k's id field: its position, or 0 when falsy
GhlId(k) == IF source[k].id = "set" THEN k ELSE 0

\* the key a document's _id makes when it stands in for a missing id
ObjectIdKey(k) == 1000 + k

(***************************************************************************)
(* Staging-store primitives.                                               *)
(***************************************************************************)
\* a checkpoint document that was never written: every field absent (0)
NoCheckpoint == [lastId |-> 0, lastConversationId |-> 0, lastMessageId |-> 0]

loadCheckpoint(checkpointId) == checkpoints[checkpointId]

\* a checkpoint write that is acknowledged and stores nothing
saveCheckpointDropped(checkpointId, data) == checkpoints

\* updateOne({_id: checkpointId}, {$set: data}, {upsert: true})
saveCheckpoint(checkpointId, data) ==
    [checkpoints EXCEPT ![checkpointId] =
        [f \in DOMAIN @ |-> IF f \in DOMAIN data THEN data[f] ELSE @[f]]]

\* mapColl.findOne({ghlId, objectTypeId})?.hubspotId, 0 when there is none
findHubspotId(ghlId, objectTypeId) ==
    IF \E m \in idMap : m.ghlId = ghlId /\ m.objectTypeId = objectTypeId
    THEN (CHOOSE m \in idMap : m.ghlId = ghlId /\ m.objectTypeId = objectTypeId).hubspotId
    ELSE 0

\* an upsert that is acknowledged and writes nothing
upsertGhlHubspotIdMapDropped(map, ghlId, hubspotId, objectTypeId) == map

upsertGhlHubspotIdMap(map, ghlId, hubspotId, objectTypeId) ==
    IF ghlId = 0 \/ hubspotId = 0
    THEN map
    ELSE { m \in map : ~(m.ghlId = ghlId /\ m.objectTypeId = objectTypeId) }
         \cup { [ghlId |-> ghlId, objectTypeId |-> objectTypeId, hubspotId |-> hubspotId] }

recordFailedMigration(log, entityType, ghlId, reason) ==
    IF ghlId = 0
    THEN log
    ELSE { f \in log : ~(f.entityType = entityType /\ f.ghlId = ghlId) }
         \cup { [entityType |-> entityType, ghlId |-> ghlId, reason |-> reason] }

(***************************************************************************)
(* The scan of a cursor migrator: collection.find(query) with              *)
(* query = {id: {$exists: true, $ne: null}} and, when resuming from a      *)
(* checkpoint, _id > lastId; cut to `limit` documents when limit is set.   *)
(***************************************************************************)
RECURSIVE Positions(_, _)
Positions(from, to) ==
    IF from > to THEN <<>> ELSE <<from>> \o Positions(from + 1, to)

Take(s, n) == IF Len(s) <= n THEN s ELSE SubSeq(s, 1, n)

IdQuery(k) == source[k].id # "null"

\* a resume filter that ignores the checkpoint: the scan restarts at the beginning
ResumeFilterFromStart(k, lastId) == k >= 1

ResumeFilter(k, lastId) == k > lastId

Cursor(resume, limit, checkpointId) ==
    LET lastId == IF resume THEN loadCheckpoint(checkpointId).lastId ELSE 0
        found == SelectSeq(Positions(1, Len(source)),
                           LAMBDA k : IdQuery(k) /\ ResumeFilter(k, lastId))
    IN IF limit # 0 THEN Take(found, limit) ELSE found

\* the (fromType, toType) pairs handed to definitionsApi.getAll
AssociationPairs ==
    {"companies/contacts", "deals/contacts", "deals/companies", "meetings/contacts",
     "notes/contacts", "notes/deals", "emails/contacts", "emails/deals",
     "calls/contacts", "calls/deals"}

\* the association-type lookups a migrator makes before its scan starts
StartPairs(e) ==
    CASE e = "opportunity" -> {"deals/contacts", "deals/companies"}
      [] e = "appointment" -> {"meetings/contacts"}
      [] e = "calendar" -> {}
      [] e = "contact" -> {}
      [] e = "note" -> {"notes/contacts", "notes/deals"}
      [] e = "conversation" -> {"notes/contacts", "notes/deals", "emails/contacts",
                                "emails/deals", "calls/contacts", "calls/deals"}

\* definitionsApi.getAll invocations of a starting run, per pair
StartLookups(e, dryRun) ==
    [p \in AssociationPairs |-> IF ~dryRun /\ p \in StartPairs(e) THEN 1 ELSE 0]

\* getPrimaryCompanyContactAssociationType: one definitionsApi.getAll
\* ("companies", "contacts") per invocation
getPrimaryCompanyContactAssociationType(getAll) ==
    [getAll EXCEPT !["companies/contacts"] = @ + 1]

Idle == [pc |-> "idle"]

NewSummary(e) ==
    IF e = "opportunity"
    THEN [processed |-> 0, created |-> 0, skippedMissingStage |-> 0,
          skippedAlreadyMapped |-> 0, errors |-> 0]
    ELSE [processed |-> 0, created |-> 0, skippedAlreadyMapped |-> 0, errors |-> 0]

\* fallbackStage: defaultDealstage || resolvedDefaults.stageId; the destination's
\* default pipeline is consulted only outside dry-run
FallbackStage(dryRun) ==
    dealstage = "configured" \/ (~dryRun /\ dealstage = "resolvable")

\* StartCalls without the dry-run guard: the lookups are made in dry-run too
StartCallsInDryRun(e, dryRun) ==
    CASE e = "opportunity" -> 2 + (IF dealstage = "configured" THEN 0 ELSE 1)
      [] e = "appointment" -> 1
      [] e = "calendar" -> 0

\* destination calls made before the scan starts
StartCalls(e, dryRun) ==
    IF dryRun THEN 0
    ELSE CASE e = "opportunity" -> 2 + (IF dealstage = "configured" THEN 0 ELSE 1)
           [] e = "appointment" -> 1
           [] e = "calendar" -> 0

(***************************************************************************)
(* Start of migrateOpportunitiesToHubspot / migrateAppointmentsToHubspot / *)
(* migrateCalendarsToHubspot.                                              *)
(***************************************************************************)
StartCursorRun(resume, dryRun, limit) ==
    /\ entity \in CursorEntities
    /\ run.pc = "idle"
    /\ Len(runs) < MaxRuns
    /\ run' = [pc |-> "fetch",
               resume |-> resume, dryRun |-> dryRun, limit |-> limit,
               checkpointAtStart |-> loadCheckpoint(DEFAULT_CHECKPOINT_ID(entity)).lastId,
               cursor |-> Cursor(resume, limit, DEFAULT_CHECKPOINT_ID(entity)),
               cur |-> 0,
               handled |-> <<>>,
               summary |-> NewSummary(entity),
               calls |-> StartCalls(entity, dryRun),
               getAll |-> StartLookups(entity, dryRun),
               recCalls |-> 0,
               creates |-> 0,
               mapWrites |-> 0,
               objectsAtStart |-> Len(hubspot),
               idMapAtStart |-> idMap,
               hubspotId |-> 0,
               hubspotContactId |-> 0]
    /\ UNCHANGED <<archived, del, peer, associations, entity, source, dealstage, idMap, checkpoints, failures, hubspot, runs>>

(***************************************************************************)
(* The head of the per-record loop, common to the three cursor migrators:  *)
(* read the next document, save the checkpoint and go on when its id is    *)
(* falsy, count it as processed, and skip it when the identity map already *)
(* holds a hubspotId for it.  `onward` is where an unmapped record goes.   *)
(***************************************************************************)
\* LoopHead without the identity-map lookup: every record with an id goes onward
LoopHeadWithoutLookup(k, objectTypeId, onward) ==
    LET r0 == [run EXCEPT !.cursor = Tail(@), !.cur = k, !.handled = Append(@, k),
                          !.recCalls = 0, !.hubspotId = 0, !.hubspotContactId = 0]
    IN IF GhlId(k) = 0
       THEN [r0 EXCEPT !.pc = "save"]
       ELSE [r0 EXCEPT !.pc = onward, !.summary.processed = @ + 1]

LoopHead(k, objectTypeId, onward) ==
    LET ghlId == GhlId(k)
        r0 == [run EXCEPT !.cursor = Tail(@), !.cur = k, !.handled = Append(@, k),
                          !.recCalls = 0, !.hubspotId = 0, !.hubspotContactId = 0]
    IN IF ghlId = 0
       THEN [r0 EXCEPT !.pc = "save"]
       ELSE IF findHubspotId(ghlId, objectTypeId) # 0
            THEN [r0 EXCEPT !.pc = "save",
                            !.summary.processed = @ + 1,
                            !.summary.skippedAlreadyMapped = @ + 1]
            ELSE [r0 EXCEPT !.pc = onward, !.summary.processed = @ + 1]

\* a finished invocation: how it ended, where it stood, and its last state
Finished(outcome, r) == [outcome |-> outcome, at |-> r.pc, r |-> r]

(***************************************************************************)
(* migrateOpportunitiesToHubspot, one record.                              *)
(***************************************************************************)
OppFetch ==
    /\ entity = "opportunity"
    /\ run.pc = "fetch"
    /\ run.cursor # <<>>
    /\ run' = LoopHead(Head(run.cursor), OBJECT_TYPE_ID, "resolve")
    /\ UNCHANGED <<archived, del, peer, associations, entity, source, dealstage, idMap, checkpoints, failures, hubspot, runs>>

\* destination calls of resolveHubspotTagIds for one record: none when the
\* record has no contact tags
TagCalls(rec) == IF rec.tags = "none" THEN 0 ELSE 1

\* destination calls of getPrimaryCompanyIdForContact and getCompanyApexId
CompanyCalls(hubspotContactId) == IF hubspotContactId # 0 THEN 3 ELSE 0

\* buildDealProperties throws (Date.prototype.toISOString on an invalid date)
buildDealPropertiesThrows(rec) == rec.badDate

\* tags, contact and company resolution, buildDealProperties, the dealstage
\* check and the dry-run branch
OppResolve ==
    /\ entity = "opportunity"
    /\ run.pc = "resolve"
    /\ LET rec == source[run.cur]
           ghlId == GhlId(run.cur)
           dryRun == run.dryRun
           tagCalls == IF dryRun THEN 0 ELSE TagCalls(rec)
           tagErrors == IF ~dryRun /\ rec.tags = "throws" THEN 1 ELSE 0
           hubspotContactId == IF ~dryRun /\ rec.contactId # 0
                               THEN findHubspotId(rec.contactId, "contact") ELSE 0
           companyCalls == IF dryRun THEN 0 ELSE CompanyCalls(hubspotContactId)
           log1 == IF ~dryRun /\ rec.contactId # 0 /\ hubspotContactId = 0
                   THEN recordFailedMigration(failures, "opportunity", ghlId,
                                              "missing hubspot contact mapping")
                   ELSE failures
           r1 == [run EXCEPT !.calls = @ + tagCalls + companyCalls,
                             !.getAll = IF hubspotContactId # 0
                                        THEN getPrimaryCompanyContactAssociationType(@)
                                        ELSE @,
                             !.recCalls = @ + tagCalls + companyCalls,
                             !.summary.errors = @ + tagErrors,
                             !.hubspotContactId = hubspotContactId]
       IN IF buildDealPropertiesThrows(rec)
          THEN /\ failures' = log1
               /\ runs' = Append(runs, Finished("threw", r1))
               /\ run' = Idle
          ELSE IF ~FallbackStage(dryRun)
          THEN /\ failures' = recordFailedMigration(log1, "opportunity", ghlId,
                                                    "missing dealstage")
               /\ run' = [r1 EXCEPT !.pc = "save", !.summary.skippedMissingStage = @ + 1]
               /\ runs' = runs
          ELSE IF dryRun
          THEN /\ failures' = log1
               /\ run' = [r1 EXCEPT !.pc = "save", !.summary.created = @ + 1]
               /\ runs' = runs
          ELSE /\ failures' = log1
               /\ run' = [r1 EXCEPT !.pc = "create"]
               /\ runs' = runs
    /\ UNCHANGED <<archived, del, peer, associations, entity, source, dealstage, idMap, checkpoints, hubspot>>

\* hubspotClient.crm.deals.basicApi.create and the catch block
OppCreate ==
    /\ entity = "opportunity"
    /\ run.pc = "create"
    /\ LET rec == source[run.cur]
           ghlId == GhlId(run.cur)
           r1 == [run EXCEPT !.calls = @ + 1, !.recCalls = @ + 1, !.creates = @ + 1]
       IN CASE rec.create = "fail" ->
                 /\ failures' = recordFailedMigration(failures, "opportunity", ghlId,
                                                      "create error")
                 /\ hubspot' = hubspot
                 /\ run' = [r1 EXCEPT !.pc = "save", !.summary.errors = @ + 1]
            [] rec.create = "noid" ->
                 /\ failures' = failures
                 /\ hubspot' = Append(hubspot, [objectType |-> "deals", ghlId |-> ghlId])
                 /\ run' = [r1 EXCEPT !.pc = "save", !.summary.created = @ + 1]
            [] rec.create = "ok" ->
                 /\ failures' = failures
                 /\ hubspot' = Append(hubspot, [objectType |-> "deals", ghlId |-> ghlId])
                 /\ run' = [r1 EXCEPT !.pc = "map", !.hubspotId = Len(hubspot) + 1]
    /\ UNCHANGED <<archived, del, peer, associations, entity, source, dealstage, idMap, checkpoints, runs>>

\* upsertGhlHubspotIdMap after a create that returned an id
OppMap ==
    /\ entity = "opportunity"
    /\ run.pc = "map"
    /\ idMap' = upsertGhlHubspotIdMap(idMap, GhlId(run.cur), run.hubspotId, OBJECT_TYPE_ID)
    /\ run' = IF run.hubspotContactId # 0
              THEN [run EXCEPT !.pc = "associate", !.mapWrites = @ + 1]
              ELSE [run EXCEPT !.pc = "save", !.mapWrites = @ + 1,
                               !.summary.created = @ + 1]
    /\ UNCHANGED <<archived, del, peer, associations, entity, source, dealstage, checkpoints, failures, hubspot, runs>>

\* the deal -> contact and deal -> company associations
OppAssociate ==
    /\ entity = "opportunity"
    /\ run.pc = "associate"
    /\ run' = [run EXCEPT !.pc = "save", !.calls = @ + 2, !.recCalls = @ + 2,
                          !.summary.created = @ + 1]
    /\ associations' = associations
                          \cup { [deal |-> run.hubspotId, contact |-> run.hubspotContactId] }
    /\ UNCHANGED <<archived, del, peer, entity, source, dealstage, idMap, checkpoints, failures, hubspot, runs>>

(***************************************************************************)
(* migrateAppointmentsToHubspot, one record.                               *)
(***************************************************************************)
ApptFetch ==
    /\ entity = "appointment"
    /\ run.pc = "fetch"
    /\ run.cursor # <<>>
    /\ LET r1 == LoopHead(Head(run.cursor), DEFAULT_APPOINTMENT_OBJECT_TYPE_ID, "build")
           rec == source[r1.cur]
       IN run' = IF r1.pc # "build" THEN r1
                 ELSE IF run.dryRun
                 THEN [r1 EXCEPT !.pc = "save", !.summary.created = @ + 1]
                 ELSE [r1 EXCEPT !.pc = "create",
                                 !.hubspotContactId =
                                     IF rec.contactId # 0
                                     THEN findHubspotId(rec.contactId, "contact") ELSE 0]
    /\ UNCHANGED <<archived, del, peer, associations, entity, source, dealstage, idMap, checkpoints, failures, hubspot, runs>>

ApptCreate ==
    /\ entity = "appointment"
    /\ run.pc = "create"
    /\ LET rec == source[run.cur]
           ghlId == GhlId(run.cur)
           r1 == [run EXCEPT !.calls = @ + 1, !.recCalls = @ + 1, !.creates = @ + 1]
       IN CASE rec.create = "fail" ->
                 /\ failures' = recordFailedMigration(failures, "appointment", ghlId,
                                                      "create error")
                 /\ hubspot' = hubspot
                 /\ run' = [r1 EXCEPT !.pc = "save", !.summary.errors = @ + 1]
            [] rec.create = "noid" ->
                 /\ failures' = failures
                 /\ hubspot' = Append(hubspot, [objectType |-> "meetings", ghlId |-> ghlId])
                 /\ run' = [r1 EXCEPT !.pc = "save", !.summary.created = @ + 1]
            [] rec.create = "ok" ->
                 /\ failures' = failures
                 /\ hubspot' = Append(hubspot, [objectType |-> "meetings", ghlId |-> ghlId])
                 /\ run' = [r1 EXCEPT !.pc = "map", !.hubspotId = Len(hubspot) + 1]
    /\ UNCHANGED <<archived, del, peer, associations, entity, source, dealstage, idMap, checkpoints, runs>>

ApptMap ==
    /\ entity = "appointment"
    /\ run.pc = "map"
    /\ idMap' = upsertGhlHubspotIdMap(idMap, GhlId(run.cur), run.hubspotId,
                                      DEFAULT_APPOINTMENT_OBJECT_TYPE_ID)
    /\ run' = [run EXCEPT !.pc = "save", !.mapWrites = @ + 1, !.summary.created = @ + 1]
    /\ UNCHANGED <<archived, del, peer, associations, entity, source, dealstage, checkpoints, failures, hubspot, runs>>

(***************************************************************************)
(* migrateCalendarsToHubspot, one record.                                  *)
(***************************************************************************)
CalFetch ==
    /\ entity = "calendar"
    /\ run.pc = "fetch"
    /\ run.cursor # <<>>
    /\ LET r1 == LoopHead(Head(run.cursor), DEFAULT_OBJECT_TYPE_ID, "build")
       IN run' = IF r1.pc # "build" THEN r1
                 ELSE IF run.dryRun
                 THEN [r1 EXCEPT !.pc = "save", !.summary.created = @ + 1]
                 ELSE [r1 EXCEPT !.pc = "create"]
    /\ UNCHANGED <<archived, del, peer, associations, entity, source, dealstage, idMap, checkpoints, failures, hubspot, runs>>

CalCreate ==
    /\ entity = "calendar"
    /\ run.pc = "create"
    /\ LET rec == source[run.cur]
           ghlId == GhlId(run.cur)
           r1 == [run EXCEPT !.calls = @ + 1, !.recCalls = @ + 1, !.creates = @ + 1]
       IN CASE rec.create = "fail" ->
                 /\ failures' = recordFailedMigration(failures, "calendar", ghlId,
                                                      "create error")
                 /\ hubspot' = hubspot
                 /\ run' = [r1 EXCEPT !.pc = "save", !.summary.errors = @ + 1]
            [] rec.create = "noid" ->
                 /\ failures' = failures
                 /\ hubspot' = Append(hubspot, [objectType |-> "calendars", ghlId |-> ghlId])
                 /\ run' = [r1 EXCEPT !.pc = "save", !.summary.created = @ + 1]
            [] rec.create = "ok" ->
                 /\ failures' = failures
                 /\ hubspot' = Append(hubspot, [objectType |-> "calendars", ghlId |-> ghlId])
                 /\ run' = [r1 EXCEPT !.pc = "map", !.hubspotId = Len(hubspot) + 1]
    /\ UNCHANGED <<archived, del, peer, associations, entity, source, dealstage, idMap, checkpoints, runs>>

CalMap ==
    /\ entity = "calendar"
    /\ run.pc = "map"
    /\ idMap' = upsertGhlHubspotIdMap(idMap, GhlId(run.cur), run.hubspotId,
                                      DEFAULT_OBJECT_TYPE_ID)
    /\ run' = [run EXCEPT !.pc = "save", !.mapWrites = @ + 1, !.summary.created = @ + 1]
    /\ UNCHANGED <<archived, del, peer, associations, entity, source, dealstage, checkpoints, failures, hubspot, runs>>

(***************************************************************************)
(* The checkpoint write that ends a record in the three cursor migrators   *)
(* (every continue path and the finally block), and the return of the      *)
(* summary when the cursor is exhausted.                                   *)
(***************************************************************************)
\* a checkpoint write that also stamps the staged document it has handled
CursorSaveStampingSource ==
    /\ entity \in CursorEntities
    /\ run.pc = "save"
    /\ checkpoints' = saveCheckpoint(DEFAULT_CHECKPOINT_ID(entity), [lastId |-> run.cur])
    /\ source' = [source EXCEPT ![run.cur].id = "empty"]
    /\ run' = [run EXCEPT !.pc = "fetch"]
    /\ UNCHANGED <<archived, del, peer, associations, entity, dealstage, idMap, failures, hubspot, runs>>

CursorSave ==
    /\ entity \in CursorEntities
    /\ run.pc = "save"
    /\ checkpoints' = saveCheckpoint(DEFAULT_CHECKPOINT_ID(entity), [lastId |-> run.cur])
    /\ run' = [run EXCEPT !.pc = "fetch"]
    /\ UNCHANGED <<archived, del, peer, associations, entity, source, dealstage, idMap, failures, hubspot, runs>>

CursorReturn ==
    /\ entity \in CursorEntities
    /\ run.pc = "fetch"
    /\ run.cursor = <<>>
    /\ runs' = Append(runs, Finished("returned", run))
    /\ run' = Idle
    /\ UNCHANGED <<archived, del, peer, associations, entity, source, dealstage, idMap, checkpoints, failures, hubspot>>

(***************************************************************************)
(* migrateContactsToHubspot with createBaseHubspotContact and              *)
(* createBaseHubspotCompany.  The scan is find(query).sort({_id: 1}) with  *)
(* _id > lastId when resuming; --limit is tested against `processed` at    *)
(* the head of the loop.  There is no identity-map lookup before a create. *)
(***************************************************************************)
ContactCursor(resume, checkpointId) ==
    LET lastId == IF resume THEN loadCheckpoint(checkpointId).lastId ELSE 0
    IN SelectSeq(Positions(1, Len(source)), LAMBDA k : ResumeFilter(k, lastId))

StartContactRun(resume, dryRun, limit) ==
    /\ entity = "contact"
    /\ run.pc = "idle"
    /\ Len(runs) < MaxRuns
    /\ run' = [pc |-> "fetch",
               resume |-> resume, dryRun |-> dryRun, limit |-> limit,
               checkpointAtStart |-> loadCheckpoint(DEFAULT_CHECKPOINT_ID(entity)).lastId,
               cursor |-> ContactCursor(resume, DEFAULT_CHECKPOINT_ID(entity)),
               cur |-> 0,
               handled |-> <<>>,
               summary |-> [processed |-> 0, failed |-> 0],
               calls |-> 0,
               getAll |-> StartLookups(entity, dryRun),
               recCalls |-> 0,
               creates |-> 0,
               mapWrites |-> 0,
               objectsAtStart |-> Len(hubspot),
               idMapAtStart |-> idMap,
               hubspotId |-> 0,
               hubspotContactId |-> 0,
               err |-> ""]
    /\ UNCHANGED <<archived, del, peer, associations, entity, source, dealstage, idMap, checkpoints, failures, hubspot, runs>>

LimitReached == run.limit # 0 /\ run.summary.processed >= run.limit

\* cursor.next() and createBaseHubspotContact up to the contact create call
ContactFetch ==
    /\ entity = "contact"
    /\ run.pc = "fetch"
    /\ run.cursor # <<>>
    /\ ~LimitReached
    /\ LET k == Head(run.cursor)
           rec == source[k]
           r0 == [run EXCEPT !.cursor = Tail(@), !.cur = k, !.handled = Append(@, k),
                             !.recCalls = 0, !.hubspotId = 0, !.err = "",
                             !.summary.processed = IF run.dryRun THEN @ + 1 ELSE @]
       IN IF ~rec.email
          THEN /\ failures' = recordFailedMigration(failures, "contact", GhlId(k),
                                                    "missing email")
               /\ run' = [r0 EXCEPT !.pc = "catch",
                                    !.err = "migration error: email is required"]
          ELSE IF rec.badDate
          THEN /\ failures' = failures
               /\ run' = [r0 EXCEPT !.pc = "catch",
                                    !.err = "migration error: Invalid time value"]
          ELSE IF run.dryRun
          THEN \* the dry-run branch reads companyProps before its declaration
               /\ failures' = failures
               /\ run' = [r0 EXCEPT !.pc = "catch",
                                    !.err = "migration error: Cannot access companyProps"]
          ELSE /\ failures' = failures
               /\ run' = [r0 EXCEPT !.pc = "create"]
    /\ UNCHANGED <<archived, del, peer, associations, entity, source, dealstage, idMap, checkpoints, hubspot, runs>>

\* client.crm.contacts.basicApi.create
ContactCreate ==
    /\ entity = "contact"
    /\ run.pc = "create"
    /\ LET rec == source[run.cur]
           r1 == [run EXCEPT !.calls = @ + 1, !.recCalls = @ + 1, !.creates = @ + 1]
       IN IF rec.create = "fail"
          THEN /\ hubspot' = hubspot
               /\ run' = [r1 EXCEPT !.pc = "catch", !.err = "migration error: create error"]
          ELSE /\ hubspot' = Append(hubspot, [objectType |-> "contacts",
                                              ghlId |-> GhlId(run.cur)])
               /\ run' = [r1 EXCEPT !.pc = "company", !.hubspotId = Len(hubspot) + 1]
    /\ UNCHANGED <<archived, del, peer, associations, entity, source, dealstage, idMap, checkpoints, failures, runs>>

\* createBaseHubspotCompany: the company create, the "company" mapping keyed
\* by ghlCompany.id (companyProps carries no id) and the primary association
ContactCompany ==
    /\ entity = "contact"
    /\ run.pc = "company"
    /\ LET rec == source[run.cur]
           r1 == [run EXCEPT !.calls = @ + 1, !.recCalls = @ + 1, !.creates = @ + 1]
           company == [objectType |-> "companies", ghlId |-> GhlId(run.cur)]
       IN CASE rec.company = "fail" ->
                 /\ hubspot' = hubspot
                 /\ idMap' = idMap
                 /\ run' = [r1 EXCEPT !.pc = "catch", !.err = "migration error: create error"]
            [] rec.company = "assocFail" ->
                 /\ hubspot' = Append(hubspot, company)
                 /\ idMap' = upsertGhlHubspotIdMap(idMap, 0, Len(hubspot) + 1, "company")
                 /\ run' = [r1 EXCEPT !.pc = "catch", !.calls = @ + 2, !.recCalls = @ + 2,
                                      !.getAll = getPrimaryCompanyContactAssociationType(@),
                                      !.err = "migration error: association error"]
            [] rec.company = "ok" ->
                 /\ hubspot' = Append(hubspot, company)
                 /\ idMap' = upsertGhlHubspotIdMap(idMap, 0, Len(hubspot) + 1, "company")
                 /\ run' = [r1 EXCEPT !.pc = "map", !.calls = @ + 2, !.recCalls = @ + 2,
                                      !.getAll = getPrimaryCompanyContactAssociationType(@)]
    /\ UNCHANGED <<archived, del, peer, associations, entity, source, dealstage, checkpoints, failures, runs>>

\* back in the migrator: the "contact" mapping and the processed counter
ContactMap ==
    /\ entity = "contact"
    /\ run.pc = "map"
    /\ idMap' = upsertGhlHubspotIdMap(idMap, GhlId(run.cur), run.hubspotId, "contact")
    /\ run' = [run EXCEPT !.pc = "save", !.mapWrites = @ + 1, !.summary.processed = @ + 1]
    /\ UNCHANGED <<archived, del, peer, associations, entity, source, dealstage, checkpoints, failures, hubspot, runs>>

\* the migrator's catch block: ghlId is contact.id ?? contact._id
ContactCatch ==
    /\ entity = "contact"
    /\ run.pc = "catch"
    /\ failures' = recordFailedMigration(
                      failures, "contact",
                      IF source[run.cur].id = "null" THEN ObjectIdKey(run.cur)
                                                      ELSE GhlId(run.cur),
                      run.err)
    /\ run' = [run EXCEPT !.pc = "save", !.summary.failed = @ + 1]
    /\ UNCHANGED <<archived, del, peer, associations, entity, source, dealstage, idMap, checkpoints, hubspot, runs>>

ContactSave ==
    /\ entity = "contact"
    /\ run.pc = "save"
    /\ checkpoints' = saveCheckpoint(DEFAULT_CHECKPOINT_ID(entity), [lastId |-> run.cur])
    /\ run' = [run EXCEPT !.pc = "fetch"]
    /\ UNCHANGED <<archived, del, peer, associations, entity, source, dealstage, idMap, failures, hubspot, runs>>

\* the loop ends: the cursor is exhausted or `processed` has reached the limit
ContactReturn ==
    /\ entity = "contact"
    /\ run.pc = "fetch"
    /\ run.cursor = <<>> \/ LimitReached
    /\ runs' = Append(runs, Finished("returned", run))
    /\ run' = Idle
    /\ UNCHANGED <<archived, del, peer, associations, entity, source, dealstage, idMap, checkpoints, failures, hubspot>>

(***************************************************************************)
(* migrateNotesToHubspot.  Every staged note of the model matches the      *)
(* query's $or; the scan resumes at _id > lastId and is cut to `limit`.    *)
(* The migrator reads the identity map and never writes it, and it writes  *)
(* no failure record.                                                      *)
(***************************************************************************)
NoteCursorFrom(checkpointLastId, resume, limit) ==
    LET lastId == IF resume THEN checkpointLastId ELSE 0
        found == SelectSeq(Positions(1, Len(source)), LAMBDA k : ResumeFilter(k, lastId))
    IN IF limit # 0 THEN Take(found, limit) ELSE found

NoteCursor(resume, limit, checkpointId) ==
    NoteCursorFrom(loadCheckpoint(checkpointId).lastId, resume, limit)

\* `associationTypes`: the destination schema offers a HUBSPOT_DEFINED
\* association type for notes -> contacts and for notes -> deals.  Outside
\* dry-run getNoteToContactAssociationType throws when it finds none, before
\* the first note is read.
StartNoteRun(resume, dryRun, limit, associationTypes) ==
    /\ entity = "note"
    /\ run.pc = "idle"
    /\ Len(runs) < MaxRuns
    /\ LET r0 == [pc |-> "start",
                  resume |-> resume, dryRun |-> dryRun, limit |-> limit,
                  associationTypes |-> associationTypes,
                  checkpointAtStart |-> loadCheckpoint(DEFAULT_CHECKPOINT_ID(entity)).lastId,
                  cursor |-> NoteCursor(resume, limit, DEFAULT_CHECKPOINT_ID(entity)),
                  cur |-> 0,
                  handled |-> <<>>,
                  summary |-> [processed |-> 0, created |-> 0, skippedMissingContactId |-> 0,
                               skippedMissingOpportunityId |-> 0,
                               skippedMissingHubspotId |-> 0,
                               skippedMissingBody |-> 0, errors |-> 0],
                  calls |-> 0,
                  getAll |-> StartLookups(entity, TRUE),
                  recCalls |-> 0,
                  creates |-> 0,
                  mapWrites |-> 0,
                  objectsAtStart |-> Len(hubspot),
                  idMapAtStart |-> idMap,
                  hubspotId |-> 0,
                  hubspotContactId |-> 0]
       IN IF ~dryRun /\ ~associationTypes
          THEN /\ runs' = Append(runs, Finished("threw", [r0 EXCEPT !.calls = 1,
                                                   !.getAll["notes/contacts"] = 1]))
               /\ run' = Idle
          ELSE /\ runs' = runs
               /\ run' = [r0 EXCEPT !.pc = "fetch", !.calls = IF dryRun THEN 0 ELSE 3,
                                   !.getAll = StartLookups(entity, dryRun)]
    /\ UNCHANGED <<archived, del, peer, associations, entity, source, dealstage, idMap, checkpoints, failures,
                   hubspot>>

NoteFetch ==
    /\ entity = "note"
    /\ run.pc = "fetch"
    /\ run.cursor # <<>>
    /\ LET k == Head(run.cursor)
           note == source[k]
           r0 == [run EXCEPT !.cursor = Tail(@), !.cur = k, !.handled = Append(@, k),
                             !.recCalls = 0, !.hubspotId = 0, !.hubspotContactId = 0,
                             !.pc = "save"]
           hubspotContactId ==
               CASE note.relation = "mapped" -> findHubspotId(MappedContact, "contact")
                 [] note.relation = "unmapped" -> findHubspotId(UnmappedContact, "contact")
                 [] OTHER -> 0
       IN run' =
            IF note.relation = "dangling"
            THEN [r0 EXCEPT !.summary.skippedMissingContactId = @ + 1,
                            !.summary.skippedMissingOpportunityId = @ + 1]
            ELSE IF hubspotContactId = 0
            THEN [r0 EXCEPT !.summary.processed = @ + 1,
                            !.summary.skippedMissingHubspotId = @ + 1]
            ELSE IF ~note.body
            THEN [r0 EXCEPT !.summary.processed = @ + 1,
                            !.summary.skippedMissingBody = @ + 1]
            ELSE IF run.dryRun
            THEN [r0 EXCEPT !.summary.processed = @ + 1, !.summary.created = @ + 1]
            ELSE [r0 EXCEPT !.summary.processed = @ + 1, !.pc = "create",
                            !.hubspotContactId = hubspotContactId]
    /\ UNCHANGED <<archived, del, peer, associations, entity, source, dealstage, idMap, checkpoints, failures, hubspot, runs>>

NoteCreate ==
    /\ entity = "note"
    /\ run.pc = "create"
    /\ LET r1 == [run EXCEPT !.calls = @ + 1, !.recCalls = @ + 1, !.creates = @ + 1,
                             !.pc = "save"]
       IN IF source[run.cur].create = "fail"
          THEN /\ hubspot' = hubspot
               /\ run' = [r1 EXCEPT !.summary.errors = @ + 1]
          ELSE /\ hubspot' = Append(hubspot, [objectType |-> "notes", ghlId |-> run.cur])
               /\ run' = [r1 EXCEPT !.summary.created = @ + 1]
    /\ UNCHANGED <<archived, del, peer, associations, entity, source, dealstage, idMap, checkpoints, failures, runs>>

NoteSave ==
    /\ entity = "note"
    /\ run.pc = "save"
    /\ checkpoints' = saveCheckpoint(DEFAULT_CHECKPOINT_ID(entity), [lastId |-> run.cur])
    /\ run' = [run EXCEPT !.pc = "fetch"]
    /\ UNCHANGED <<archived, del, peer, associations, entity, source, dealstage, idMap, failures, hubspot, runs>>

NoteReturn ==
    /\ entity = "note"
    /\ run.pc = "fetch"
    /\ run.cursor = <<>>
    /\ runs' = Append(runs, Finished("returned", run))
    /\ run' = Idle
    /\ UNCHANGED <<archived, del, peer, associations, entity, source, dealstage, idMap, checkpoints, failures, hubspot>>

(***************************************************************************)
(* migrateConversationsToHubspot.  The scan is find(query).sort({_id: 1})  *)
(* with _id >= lastConversationId when resuming, cut to `limit`; inside    *)
(* the conversation named by the checkpoint the message loop starts at the *)
(* index findIndex gives for lastMessageId.  There is no identity-map      *)
(* lookup for the message before its create.                               *)
(***************************************************************************)
ConversationCursor(resume, limit, checkpointId) ==
    LET startConversationId ==
            IF resume THEN loadCheckpoint(checkpointId).lastConversationId ELSE 0
        found == SelectSeq(Positions(1, Len(source)), LAMBDA k : k >= startConversationId)
    IN IF limit # 0 THEN Take(found, limit) ELSE found

StartConversationRun(resume, dryRun, limit) ==
    /\ entity = "conversation"
    /\ run.pc = "idle"
    /\ Len(runs) < MaxRuns
    /\ LET checkpoint == loadCheckpoint(DEFAULT_CHECKPOINT_ID(entity))
           resuming == resume /\ checkpoint.lastConversationId # 0
       IN run' = [pc |-> "fetch",
                  resume |-> resume, dryRun |-> dryRun, limit |-> limit,
                  checkpointAtStart |-> checkpoint.lastConversationId,
                  startConversationId |->
                      IF resuming THEN checkpoint.lastConversationId ELSE 0,
                  startMessageId |-> IF resuming THEN checkpoint.lastMessageId ELSE 0,
                  cursor |-> ConversationCursor(resume, limit, DEFAULT_CHECKPOINT_ID(entity)),
                  cur |-> 0,
                  msg |-> 0,
                  handled |-> <<>>,
                  summary |-> [processedConversations |-> 0, processedMessages |-> 0,
                               createdNotes |-> 0, skippedNonSms |-> 0,
                               skippedMissingMappings |-> 0, errors |-> 0],
                  calls |-> IF dryRun THEN 0 ELSE 7,
                  getAll |-> StartLookups(entity, dryRun),
                  recCalls |-> 0,
                  creates |-> 0,
                  mapWrites |-> 0,
                  objectsAtStart |-> Len(hubspot),
                  idMapAtStart |-> idMap,
                  hubspotId |-> 0,
                  hubspotContactId |-> 0]
    /\ UNCHANGED <<archived, del, peer, associations, entity, source, dealstage, idMap, checkpoints, failures, hubspot, runs>>

\* messages.findIndex((msg) => msg?.id === startMessageId), 1-based; 0 when absent
FindIndex(k, messageId) ==
    LET hits == { i \in 1..Len(source[k].messages) : MessageId(k, i) = messageId }
    IN IF hits = {} THEN 0 ELSE CHOOSE i \in hits : \A j \in hits : i <= j

\* startIndex, 1-based: Math.max(0, findIndex(...)) when this is the conversation
\* of the checkpoint, the first message otherwise
StartIndex(k, startConversationId, startMessageId) ==
    IF startConversationId # 0 /\ k = startConversationId /\ startMessageId # 0
    THEN (IF FindIndex(k, startMessageId) = 0 THEN 1 ELSE FindIndex(k, startMessageId))
    ELSE 1

\* where the message loop goes from index i of conversation k
MessageLoop(r, k, i) ==
    IF i <= Len(source[k].messages)
    THEN [r EXCEPT !.pc = "message", !.msg = i]
    ELSE [r EXCEPT !.pc = "fetch", !.msg = 0]

ConvFetch ==
    /\ entity = "conversation"
    /\ run.pc = "fetch"
    /\ run.cursor # <<>>
    /\ LET k == Head(run.cursor)
           conversation == source[k]
           r0 == [run EXCEPT !.cursor = Tail(@), !.cur = k,
                             !.summary.processedConversations = @ + 1,
                             !.hubspotContactId =
                                 findHubspotId(IF conversation.contact = "mapped"
                                               THEN MappedContact ELSE UnmappedContact,
                                               "contact")]
       IN run' = MessageLoop(r0, k, StartIndex(k, run.startConversationId,
                                                  run.startMessageId))
    /\ UNCHANGED <<archived, del, peer, associations, entity, source, dealstage, idMap, checkpoints, failures, hubspot, runs>>

\* one message up to its create: classification, the two skips, the dry-run branch
ConvMessage ==
    /\ entity = "conversation"
    /\ run.pc = "message"
    /\ LET k == run.cur
           i == run.msg
           kind == source[k].messages[i]
           r0 == [run EXCEPT !.handled = Append(@, MessageId(k, i)),
                             !.recCalls = 0, !.hubspotId = 0,
                             !.summary.processedMessages = @ + 1]
       IN run' =
            IF kind = "other"
            THEN MessageLoop([r0 EXCEPT !.summary.skippedNonSms = @ + 1], k, i + 1)
            ELSE IF run.hubspotContactId = 0
            THEN MessageLoop([r0 EXCEPT !.summary.skippedMissingMappings = @ + 1], k, i + 1)
            ELSE IF run.dryRun
            THEN [r0 EXCEPT !.pc = "save", !.summary.createdNotes = @ + 1]
            ELSE [r0 EXCEPT !.pc = "create"]
    /\ UNCHANGED <<archived, del, peer, associations, entity, source, dealstage, idMap, checkpoints, failures, hubspot, runs>>

ConvCreate ==
    /\ entity = "conversation"
    /\ run.pc = "create"
    /\ LET messageId == MessageId(run.cur, run.msg)
           r1 == [run EXCEPT !.calls = @ + 1, !.recCalls = @ + 1, !.creates = @ + 1]
       IN IF source[run.cur].messages[run.msg] = "smsFail"
          THEN /\ hubspot' = hubspot
               /\ failures' = recordFailedMigration(failures, "conversation_message",
                                                    messageId, "create error")
               /\ run' = [r1 EXCEPT !.pc = "save", !.summary.errors = @ + 1]
          ELSE /\ hubspot' = Append(hubspot, [objectType |-> "notes", ghlId |-> messageId])
               /\ failures' = failures
               /\ run' = [r1 EXCEPT !.pc = "map", !.hubspotId = Len(hubspot) + 1]
    /\ UNCHANGED <<archived, del, peer, associations, entity, source, dealstage, idMap, checkpoints, runs>>

ConvMap ==
    /\ entity = "conversation"
    /\ run.pc = "map"
    /\ idMap' = upsertGhlHubspotIdMap(idMap, MessageId(run.cur, run.msg), run.hubspotId,
                                      "note")
    /\ run' = [run EXCEPT !.pc = "save", !.mapWrites = @ + 1,
                          !.summary.createdNotes = @ + 1]
    /\ UNCHANGED <<archived, del, peer, associations, entity, source, dealstage, checkpoints, failures, hubspot, runs>>

\* the checkpoint write at the foot of the message loop
ConvSave ==
    /\ entity = "conversation"
    /\ run.pc = "save"
    /\ checkpoints' = saveCheckpoint(DEFAULT_CHECKPOINT_ID(entity),
                                     [lastConversationId |-> run.cur,
                                      lastMessageId |-> MessageId(run.cur, run.msg)])
    /\ run' = MessageLoop(run, run.cur, run.msg + 1)
    /\ UNCHANGED <<archived, del, peer, associations, entity, source, dealstage, idMap, failures, hubspot, runs>>

ConvReturn ==
    /\ entity = "conversation"
    /\ run.pc = "fetch"
    /\ run.cursor = <<>>
    /\ runs' = Append(runs, Finished("returned", run))
    /\ run' = Idle
    /\ UNCHANGED <<archived, del, peer, associations, entity, source, dealstage, idMap, checkpoints, failures, hubspot>>

\* the process is killed while an invocation is in progress
Kill ==
    /\ run.pc # "idle"
    /\ runs' = Append(runs, Finished("killed", run))
    /\ run' = Idle
    /\ UNCHANGED <<archived, del, peer, associations, entity, source, dealstage, idMap, checkpoints, failures, hubspot>>

Entities == CursorEntities \cup {"contact", "note", "conversation"}

Init ==
    /\ entity \in Entities
    /\ source \in SeqsUpTo(RecordsOf(entity), MaxRecords)
    /\ dealstage \in IF entity = "opportunity"
                     THEN {"configured", "resolvable", "none"}
                     ELSE {"configured"}
    /\ idMap = { [ghlId |-> MappedContact, objectTypeId |-> "contact",
                  hubspotId |-> MappedContactHubspotId] }
    /\ checkpoints = [c \in CheckpointIds |-> NoCheckpoint]
    /\ failures = {}
    /\ hubspot = <<>>
    /\ run = Idle
    /\ runs = <<>>
    /\ associations = {}
    /\ peer = "idle"
    /\ archived = {}
    /\ del = [pc |-> "idle"]

Next ==
    \/ \E resume \in BOOLEAN, dryRun \in BOOLEAN, limit \in 0..MaxLimit :
          StartCursorRun(resume, dryRun, limit)
    \/ OppFetch \/ OppResolve \/ OppCreate \/ OppMap \/ OppAssociate
    \/ ApptFetch \/ ApptCreate \/ ApptMap
    \/ CalFetch \/ CalCreate \/ CalMap
    \/ CursorSave
    \/ CursorReturn
    \/ \E resume \in BOOLEAN, dryRun \in BOOLEAN, limit \in 0..MaxLimit :
          StartContactRun(resume, dryRun, limit)
    \/ ContactFetch \/ ContactCreate \/ ContactCompany \/ ContactMap \/ ContactCatch
    \/ ContactSave
    \/ ContactReturn
    \/ \E resume \in BOOLEAN, dryRun \in BOOLEAN, limit \in 0..MaxLimit,
          associationTypes \in BOOLEAN :
          StartNoteRun(resume, dryRun, limit, associationTypes)
    \/ NoteFetch \/ NoteCreate \/ NoteSave \/ NoteReturn
    \/ \E resume \in BOOLEAN, dryRun \in BOOLEAN, limit \in 0..MaxLimit :
          StartConversationRun(resume, dryRun, limit)
    \/ ConvFetch \/ ConvMessage \/ ConvCreate \/ ConvMap \/ ConvSave \/ ConvReturn

Spec == Init /\ [][Next]_vars

NextKill == Next \/ Kill

SpecKill == Init /\ [][NextKill]_vars

(***************************************************************************)
(* The --reset command: resetMigrationState(db, {entity, checkpointId}),   *)
(* run by the operator as an invocation of its own while no migrator is    *)
(* running.  `name` is what was typed after --reset; checkpointId is ""    *)
(* when --checkpoint-id was not given.  The resets are studied on streams  *)
(* of at most MaxResetRecords records.                                     *)
(***************************************************************************)
ResetNames == {"contact", "Contact", "opportunity", "meeting", "note"}

\* the checkpoint ids tried with --checkpoint-id: none, the stream's own, another's
ResetCheckpointIds == {"", DEFAULT_CHECKPOINT_ID(entity), DEFAULT_CHECKPOINT_ID("contact")}

\* String(entity).trim().toLowerCase() over ResetNames
Normalized(name) == IF name = "Contact" THEN "contact" ELSE name

\* a reset of the identity map that deletes every mapping, whatever its type
DeleteAllMappings(map, normalized) == {}

\* GHLHubspotIdMap.deleteMany({objectTypeId: normalized})
DeleteMappings(map, normalized) == { m \in map : m.objectTypeId # normalized }

\* hubspot_failed_migrations.deleteMany({entityType: normalized})
DeleteFailures(log, normalized) == { f \in log : f.entityType # normalized }

\* hubspot_transfer_checkpoints: deleteOne({_id: checkpointId}), or deleteMany({})
DeleteCheckpoints(docs, checkpointId) ==
    IF checkpointId # ""
    THEN [c \in DOMAIN docs |-> IF c = checkpointId THEN NoCheckpoint ELSE docs[c]]
    ELSE [c \in DOMAIN docs |-> NoCheckpoint]

resetMigrationState(name, checkpointId) ==
    /\ run.pc = "idle"
    /\ failures' = DeleteFailures(failures, Normalized(name))
    /\ idMap' = DeleteMappings(idMap, Normalized(name))
    /\ checkpoints' = DeleteCheckpoints(checkpoints, checkpointId)
    /\ UNCHANGED <<archived, del, peer, associations, entity, source, dealstage, hubspot, run, runs>>

NextReset ==
    \/ Next
    \/ \E name \in ResetNames, checkpointId \in ResetCheckpointIds :
          resetMigrationState(name, checkpointId)

InitReset == Init /\ Len(source) <= MaxResetRecords

SpecReset == InitReset /\ [][NextReset]_vars

(***************************************************************************)
(* The contact migrator running as a process of its own beside the stream  *)
(* under study, with its default checkpoint id.  Its contacts collection   *)
(* holds the one contact UnmappedContact: the destination create returns   *)
(* UnmappedContactHubspotId, the "contact" mapping is written, and the     *)
(* checkpoint of the contact stream is saved.                              *)
(***************************************************************************)
PeerCreate ==
    /\ entity # "contact"
    /\ peer = "idle"
    /\ peer' = "map"
    /\ UNCHANGED <<archived, del, associations, entity, source, dealstage, idMap, checkpoints, failures,
                   hubspot, run, runs>>

PeerMap ==
    /\ peer = "map"
    /\ idMap' = upsertGhlHubspotIdMap(idMap, UnmappedContact, UnmappedContactHubspotId,
                                      "contact")
    /\ peer' = "save"
    /\ UNCHANGED <<archived, del, associations, entity, source, dealstage, checkpoints, failures,
                   hubspot, run, runs>>

PeerSave ==
    /\ peer = "save"
    /\ checkpoints' = saveCheckpoint(DEFAULT_CHECKPOINT_ID("contact"), [lastId |-> 1])
    /\ peer' = "done"
    /\ UNCHANGED <<archived, del, associations, entity, source, dealstage, idMap, failures,
                   hubspot, run, runs>>

NextPeer == Next \/ PeerCreate \/ PeerMap \/ PeerSave

SpecPeer == Init /\ [][NextPeer]_vars

Range(s) == { s[i] : i \in DOMAIN s }

(***************************************************************************)
(* --delete-import-tag: deleteDealsByImportTag, deleteAppointmentsByImport- *)
(* Tag, deleteByImportTagForObjectType, deleteHubspotNotes and              *)
(* deleteEngagementsByImportTag are one loop: search the objects of a type  *)
(* whose import_tag equals the given tag, a page of `limit` at a time,      *)
(* archive the page outside dry-run, and go on from paging.next.after       *)
(* while the response carries one.  The command is an invocation of its     *)
(* own, made while no migrator is running.                                  *)
(***************************************************************************)
\* the import_tag every property builder stamps on what it creates
IMPORT_TAG == "GHL_MIGRATION"

ImportTags == {IMPORT_TAG, "OTHER"}

\* the object types the --delete-import-tag of a migrator's command line works on
DeleteTypes(e) ==
    CASE e = "opportunity" -> {"deals"}
      [] e = "appointment" -> {"meetings"}
      [] e = "calendar" -> {}
      [] e = "contact" -> {"contacts", "companies"}
      [] e = "note" -> {"notes"}
      [] e = "conversation" -> {"notes"}

\* what `after` stands for at the destination: a count of results to skip,
\* or the id of the last object of the page before
SearchPaging == {"offset", "keyset"}

\* the objects a search for (objectType, import_tag = importTag) matches now,
\* in id order; an archived object matches no search
Matching(objectType, importTag) ==
    SelectSeq(Positions(1, Len(hubspot)),
              LAMBDA j : /\ j \notin archived
                         /\ hubspot[j].objectType = objectType
                         /\ importTag = IMPORT_TAG)

\* searchApi.doSearch({filterGroups, limit, after}): one page and paging.next.after
\* (0 when the response has no next page)
doSearch(objectType, importTag, paging, after) ==
    LET all == Matching(objectType, importTag)
        rest == IF paging = "offset"
                THEN SubSeq(all, after + 1, Len(all))
                ELSE SelectSeq(all, LAMBDA j : j > after)
        results == Take(rest, SearchLimit)
        next == IF Len(rest) <= SearchLimit THEN 0
                ELSE IF paging = "offset" THEN after + SearchLimit
                ELSE results[Len(results)]
    IN [results |-> results, next |-> next]

\* shouldDeleteMap: only the conversation command line hands in db, for notes
shouldDeleteMap(objectType, dryRun) ==
    objectType = "notes" /\ entity = "conversation" /\ ~dryRun

\* deleteMany({hubspotId: {$in: ids}, objectTypeId: "note"})
DeleteMappingsOf(map, ids) ==
    { m \in map : ~(m.hubspotId \in ids /\ m.objectTypeId = "note") }

DeleteStart(objectType, importTag, dryRun, paging) ==
    /\ run.pc = "idle"
    /\ peer = "idle"
    /\ del.pc = "idle"
    /\ del' = [pc |-> "search", objectType |-> objectType, importTag |-> importTag,
               dryRun |-> dryRun, paging |-> paging, after |-> 0, page |-> <<>>,
               next |-> 0, results |-> [scanned |-> 0, deleted |-> 0],
               objectsAtStart |-> Len(hubspot), runsAtStart |-> Len(runs)]
    /\ UNCHANGED <<archived, peer, associations, entity, source, dealstage, idMap,
                   checkpoints, failures, hubspot, run, runs>>

\* one request of the loop; without anything to archive it goes straight to
\* `after = paging.next.after` and the loop test
DeleteSearch ==
    /\ del.pc = "search"
    /\ LET response == doSearch(del.objectType, del.importTag, del.paging, del.after)
           d1 == [del EXCEPT !.page = response.results, !.next = response.next,
                             !.results.scanned = @ + Len(response.results)]
       IN IF ~del.dryRun /\ response.results # <<>>
          THEN del' = [d1 EXCEPT !.pc = "archive"]
          ELSE del' = [d1 EXCEPT !.after = response.next,
                                 !.pc = IF response.next # 0 THEN "search" ELSE "done"]
    /\ UNCHANGED <<archived, peer, associations, entity, source, dealstage, idMap,
                   checkpoints, failures, hubspot, run, runs>>

\* batchApi.archive({inputs}), the mappings of archived notes, `after` and
\* the loop test
DeleteArchive ==
    /\ del.pc = "archive"
    /\ archived' = archived \cup Range(del.page)
    /\ idMap' = IF shouldDeleteMap(del.objectType, del.dryRun)
                THEN DeleteMappingsOf(idMap, Range(del.page))
                ELSE idMap
    /\ del' = [del EXCEPT !.results.deleted = @ + Len(del.page),
                          !.after = del.next,
                          !.pc = IF del.next # 0 THEN "search" ELSE "done"]
    /\ UNCHANGED <<peer, associations, entity, source, dealstage, checkpoints, failures,
                   hubspot, run, runs>>

NextDelete ==
    \/ del.pc \in {"idle", "done"} /\ Next
    \/ \E objectType \in DeleteTypes(entity), importTag \in ImportTags,
          dryRun \in BOOLEAN, paging \in SearchPaging :
          DeleteStart(objectType, importTag, dryRun, paging)
    \/ DeleteSearch
    \/ DeleteArchive

SpecDelete == Init /\ [][NextDelete]_vars

(***************************************************************************)
(* transferCustomFields (createCustomFields.mjs).  `source` holds the      *)
(* custom fields of loadCustomFieldsFromDb in the order of getFieldSortKey; *)
(* a field's id is the key of its entry in the model's field map, so       *)
(* getFieldKey is unique and stands as the field's position.  transfer:    *)
(* what createHubspotPropertyFromGhlField / deleteObjectProperty does for  *)
(* the field, "ok" or "fail" (it throws).  The checkpoint document is      *)
(* {lastKey, processedCount}; lastKey = 0 when there is none.              *)
(***************************************************************************)
MaxFields == 3      \* custom fields in the staging store

FIELDS_CHECKPOINT_ID == "hubspot_custom_fields"

FieldRecords == { [transfer |-> "ok"], [transfer |-> "fail"] }

\* getFieldKey(model, field): `${model}:${fieldId}`
getFieldKey(k) == k

\* sorted.findIndex((item) => getFieldKey(item.model, item.field) === lastKey),
\* 1-based; 0 when absent
FieldIndex(lastKey) ==
    IF \E k \in DOMAIN source : getFieldKey(k) = lastKey
    THEN CHOOSE k \in DOMAIN source :
             /\ getFieldKey(k) = lastKey
             /\ \A n \in DOMAIN source : getFieldKey(n) = lastKey => k <= n
    ELSE 0

\* the position the loop starts at
FieldStartIndex(resume) ==
    LET lastKey == loadCheckpoint(FIELDS_CHECKPOINT_ID).lastKey
    IN IF resume /\ lastKey # 0 /\ FieldIndex(lastKey) > 0
       THEN FieldIndex(lastKey) + 1
       ELSE 1

StartTransfer(resume, dryRun, deleteMode) ==
    /\ entity = "customField"
    /\ run.pc = "idle"
    /\ Len(runs) < MaxRuns
    /\ run' = [pc |-> "loop", resume |-> resume, dryRun |-> dryRun,
               deleteMode |-> deleteMode, i |-> FieldStartIndex(resume), processed |-> 0,
               handled |-> <<>>, transferred |-> {},
               checkpointAtStart |-> loadCheckpoint(FIELDS_CHECKPOINT_ID).lastKey]
    /\ UNCHANGED <<archived, del, peer, associations, entity, source, dealstage, idMap,
                   checkpoints, failures, hubspot, runs>>

\* one turn of the loop up to the checkpoint write: the dry-run branch, or
\* the create / delete of the property inside the try
FieldTransfer ==
    /\ entity = "customField"
    /\ run.pc = "loop"
    /\ run.i <= Len(source)
    /\ LET r0 == [run EXCEPT !.handled = Append(@, run.i)]
       IN IF run.dryRun
          THEN /\ run' = [r0 EXCEPT !.pc = "save", !.processed = @ + 1]
               /\ hubspot' = hubspot
          ELSE IF source[run.i].transfer = "fail"
          THEN /\ run' = [r0 EXCEPT !.pc = "catch"]
               /\ hubspot' = hubspot
          ELSE /\ run' = [r0 EXCEPT !.pc = "save", !.processed = @ + 1,
                                    !.transferred = @ \cup {run.i}]
               /\ hubspot' = IF run.deleteMode
                             THEN hubspot
                             ELSE Append(hubspot, [objectType |-> "properties",
                                                   ghlId |-> getFieldKey(run.i)])
    /\ UNCHANGED <<archived, del, peer, associations, entity, source, dealstage, idMap,
                   checkpoints, failures, runs>>

\* saveCheckpoint(db, checkpointId, {lastKey: key, processedCount: processed})
FieldSave ==
    /\ entity = "customField"
    /\ run.pc = "save"
    /\ checkpoints' = saveCheckpoint(FIELDS_CHECKPOINT_ID,
                                     [lastKey |-> getFieldKey(run.i),
                                      processedCount |-> run.processed])
    /\ run' = [run EXCEPT !.pc = "loop", !.i = @ + 1]
    /\ UNCHANGED <<archived, del, peer, associations, entity, source, dealstage, idMap,
                   failures, hubspot, runs>>

\* catch (err): the failure is logged and the loop goes on
FieldCatch ==
    /\ entity = "customField"
    /\ run.pc = "catch"
    /\ run' = [run EXCEPT !.pc = "loop", !.i = @ + 1]
    /\ UNCHANGED <<archived, del, peer, associations, entity, source, dealstage, idMap,
                   checkpoints, failures, hubspot, runs>>

TransferReturn ==
    /\ entity = "customField"
    /\ run.pc = "loop"
    /\ run.i > Len(source)
    /\ runs' = Append(runs, Finished("returned", run))
    /\ run' = Idle
    /\ UNCHANGED <<archived, del, peer, associations, entity, source, dealstage, idMap,
                   checkpoints, failures, hubspot>>

InitFields ==
    /\ entity = "customField"
    /\ source \in SeqsUpTo(FieldRecords, MaxFields)
    /\ dealstage = "configured"
    /\ idMap = {}
    /\ checkpoints = [c \in {FIELDS_CHECKPOINT_ID} |-> [lastKey |-> 0, processedCount |-> 0]]
    /\ failures = {}
    /\ hubspot = <<>>
    /\ run = Idle
    /\ runs = <<>>
    /\ associations = {}
    /\ peer = "idle"
    /\ archived = {}
    /\ del = [pc |-> "idle"]

NextFields ==
    \/ \E resume \in BOOLEAN, dryRun \in BOOLEAN, deleteMode \in BOOLEAN :
          StartTransfer(resume, dryRun, deleteMode)
    \/ FieldTransfer
    \/ FieldSave
    \/ FieldCatch
    \/ TransferReturn

SpecFields == InitFields /\ [][NextFields]_vars

(***************************************************************************)
(* getOpportunities (highlevel.mjs): the paged read of the source's        *)
(* opportunities.  `source` holds what the source API does with the        *)
(* request for page 1, 2, ...: "page" = status 200 with a non-empty        *)
(* opportunities array, "empty" = status 200 with an empty array,          *)
(* "notArray" = status 200 without an array, "status" = another 2xx        *)
(* status, "throws" = axios.get throws (network error or a status outside  *)
(* 2xx).  Behind the last listed page the API answers with an empty array. *)
(***************************************************************************)
MaxPages == 3       \* pages the source API is asked for

PageResponses == {"page", "empty", "notArray", "status", "throws"}

\* the answer to the request for page p
Response(p) == IF p \in DOMAIN source THEN source[p] ELSE "empty"

StartGetOpportunities ==
    /\ entity = "getOpportunities"
    /\ run.pc = "idle"
    /\ runs = <<>>
    /\ run' = [pc |-> "request", page |-> 1, opportunities |-> <<>>, thrown |-> FALSE]
    /\ UNCHANGED <<archived, del, peer, associations, entity, source, dealstage, idMap,
                   checkpoints, failures, hubspot, runs>>

\* axios.get(url) for the current page and the tests on the response
GetOpportunitiesRequest ==
    /\ entity = "getOpportunities"
    /\ run.pc = "request"
    /\ LET response == Response(run.page)
       IN CASE response = "throws" ->
                 /\ run' = [run EXCEPT !.pc = "catch", !.thrown = TRUE]
                 /\ runs' = runs
            [] response \in {"empty", "notArray", "status"} ->
                 /\ runs' = Append(runs, Finished("returned", run))
                 /\ run' = Idle
            [] response = "page" ->
                 /\ run' = [run EXCEPT !.pc = "delay",
                                       !.opportunities = Append(@, run.page)]
                 /\ runs' = runs
    /\ UNCHANGED <<archived, del, peer, associations, entity, source, dealstage, idMap,
                   checkpoints, failures, hubspot>>

\* await delay(); page++
GetOpportunitiesDelay ==
    /\ entity = "getOpportunities"
    /\ run.pc = "delay"
    /\ run' = [run EXCEPT !.pc = "request", !.page = @ + 1]
    /\ UNCHANGED <<archived, del, peer, associations, entity, source, dealstage, idMap,
                   checkpoints, failures, hubspot, runs>>

\* catch (err): log.warn, and the while (true) loop goes round with the same page
GetOpportunitiesCatch ==
    /\ entity = "getOpportunities"
    /\ run.pc = "catch"
    /\ run' = [run EXCEPT !.pc = "request"]
    /\ UNCHANGED <<archived, del, peer, associations, entity, source, dealstage, idMap,
                   checkpoints, failures, hubspot, runs>>

InitGetOpportunities ==
    /\ entity = "getOpportunities"
    /\ source \in SeqsUpTo(PageResponses, MaxPages)
    /\ dealstage = "configured"
    /\ idMap = {}
    /\ checkpoints = [c \in CheckpointIds |-> NoCheckpoint]
    /\ failures = {}
    /\ hubspot = <<>>
    /\ run = Idle
    /\ runs = <<>>
    /\ associations = {}
    /\ peer = "idle"
    /\ archived = {}
    /\ del = [pc |-> "idle"]

NextGetOpportunities ==
    \/ StartGetOpportunities
    \/ GetOpportunitiesRequest
    \/ GetOpportunitiesDelay
    \/ GetOpportunitiesCatch

\* the function runs to its next await whenever it can
SpecGetOpportunities ==
    InitGetOpportunities /\ [][NextGetOpportunities]_vars /\ WF_vars(NextGetOpportunities)

(***************************************************************************)
(* getAllConversations (highlevel.mjs): the paged read of the source's     *)
(* conversations, each request starting after the `sort` value of the last *)
(* conversation of the page before.  `source` holds what the source API    *)
(* does with request 1, 2, ...: kind "array" = a response with `count`     *)
(* conversations whose last one has a non-empty `sort` array or not        *)
(* (`sort`), "notArray" = a response without an array, "throws" =          *)
(* axios.get throws.  total: data.total of the first response.             *)
(***************************************************************************)
pageSize == 1       \* conversations in a full page (100 in the program)

MaxTotal == 3       \* largest data.total the source API reports

Batch(kind, count, sort) == [kind |-> kind, count |-> count, sort |-> sort]

BatchResponses ==
    { Batch("array", count, sort) : count \in 0..pageSize, sort \in BOOLEAN }
    \cup { Batch("notArray", 0, FALSE), Batch("throws", 0, FALSE) }

\* the answer to request n; behind the listed ones the API has nothing more
BatchResponse(n) == IF n \in DOMAIN source THEN source[n] ELSE Batch("array", 0, FALSE)

\* how a finished getAllConversations ended: it returned ALL_CONVERSATIONS
\* (`ended` tells by which exit) or it threw to its caller
Ended(outcome, r, ended) == Finished(outcome, [r EXCEPT !.ended = ended])

\* throw new Error(`... missing required "sort" field ...`) inside the try:
\* the function's own catch logs it and breaks
EndedMissingSort(r) == Ended("returned", r, "missingSort")

StartGetAllConversations(total) ==
    /\ entity = "getAllConversations"
    /\ run.pc = "idle"
    /\ runs = <<>>
    /\ run' = [pc |-> "request", batchNum |-> 1, all |-> 0, total |-> -1,
               dataTotal |-> total, ended |-> ""]
    /\ UNCHANGED <<archived, del, peer, associations, entity, source, dealstage, idMap,
                   checkpoints, failures, hubspot, runs>>

\* axios.get(nextUrl) and everything up to `await delay()`, the catch included
GetAllConversationsRequest ==
    /\ entity = "getAllConversations"
    /\ run.pc = "request"
    /\ LET response == BatchResponse(run.batchNum)
           r1 == [run EXCEPT !.all = @ + response.count,
                             !.total = IF @ = -1 THEN run.dataTotal ELSE @]
       IN IF response.kind = "throws"
          THEN runs' = Append(runs, Ended("returned", run, "caught"))
          ELSE IF response.kind = "notArray"
          THEN runs' = Append(runs, Ended("returned", run, "notArray"))
          ELSE IF r1.all >= r1.total
          THEN runs' = Append(runs, Ended("returned", r1, "fetchedAll"))
          ELSE IF response.count < pageSize
          THEN runs' = Append(runs, Ended("returned", r1, "lastBatch"))
          ELSE IF ~response.sort
          THEN runs' = Append(runs, EndedMissingSort(r1))
          ELSE runs' = runs
    /\ run' = IF runs' # runs
              THEN Idle
              ELSE [run EXCEPT !.pc = "delay",
                               !.all = @ + BatchResponse(run.batchNum).count,
                               !.total = IF @ = -1 THEN run.dataTotal ELSE @]
    /\ UNCHANGED <<archived, del, peer, associations, entity, source, dealstage, idMap,
                   checkpoints, failures, hubspot>>

\* await delay(); batchNum++
GetAllConversationsDelay ==
    /\ entity = "getAllConversations"
    /\ run.pc = "delay"
    /\ run' = [run EXCEPT !.pc = "request", !.batchNum = @ + 1]
    /\ UNCHANGED <<archived, del, peer, associations, entity, source, dealstage, idMap,
                   checkpoints, failures, hubspot, runs>>

InitGetAllConversations ==
    /\ entity = "getAllConversations"
    /\ source \in SeqsUpTo(BatchResponses, MaxPages)
    /\ dealstage = "configured"
    /\ idMap = {}
    /\ checkpoints = [c \in CheckpointIds |-> NoCheckpoint]
    /\ failures = {}
    /\ hubspot = <<>>
    /\ run = Idle
    /\ runs = <<>>
    /\ associations = {}
    /\ peer = "idle"
    /\ archived = {}
    /\ del = [pc |-> "idle"]

NextGetAllConversations ==
    \/ \E total \in 0..MaxTotal : StartGetAllConversations(total)
    \/ GetAllConversationsRequest
    \/ GetAllConversationsDelay

SpecGetAllConversations == InitGetAllConversations /\ [][NextGetAllConversations]_vars

(***************************************************************************)
(* ensureObjectProperty (createCustomFields.mjs) and                       *)
(* ensureCustomObjectProperty (createCustomObjects.mjs).  `entity` is the  *)
(* function called; source[1] tells what the destination does: lookup and  *)
(* create are the status of the error that properties.coreApi.getByName /  *)
(* create fails with, 200 when the call succeeds and 0 when it fails with  *)
(* an error that carries no code and no response status; named: the        *)
(* property has a name that toHubspotPropertyName leaves non-empty.        *)
(***************************************************************************)
EnsureFunctions == {"ensureObjectProperty", "ensureCustomObjectProperty"}

Statuses == {200, 0, 400, 401, 404, 409, 429, 500}

PropertyCalls ==
    { [lookup |-> lookup, create |-> create, named |-> named] :
          lookup \in Statuses, create \in Statuses, named \in BOOLEAN }

\* the catch around coreApi.create: ensureObjectProperty returns on 409 and
\* rethrows the rest; ensureCustomObjectProperty has no catch
CreateFailureRaised(function, status) ==
    IF function = "ensureObjectProperty" THEN status # 409 ELSE TRUE

\* the catch around coreApi.getByName: if (status && status !== 404) throw err
LookupFailureRaised(status) == status # 0 /\ status # 404

StartEnsure ==
    /\ entity \in EnsureFunctions
    /\ run.pc = "idle"
    /\ runs = <<>>
    /\ IF entity = "ensureCustomObjectProperty" /\ ~source[1].named
       THEN /\ runs' = Append(runs, Finished("returned", [pc |-> "start", lookups |-> 0,
                                                          creates |-> 0]))
            /\ run' = Idle
       ELSE /\ runs' = runs
            /\ run' = [pc |-> "lookup", lookups |-> 0, creates |-> 0]
    /\ UNCHANGED <<archived, del, peer, associations, entity, source, dealstage, idMap,
                   checkpoints, failures, hubspot>>

\* await coreApi.getByName(objectType, name)
EnsureLookup ==
    /\ entity \in EnsureFunctions
    /\ run.pc = "lookup"
    /\ LET status == source[1].lookup
           r1 == [run EXCEPT !.lookups = @ + 1]
       IN IF status = 200
          THEN /\ runs' = Append(runs, Finished("returned", r1))
               /\ run' = Idle
          ELSE IF LookupFailureRaised(status)
          THEN /\ runs' = Append(runs, Finished("threw", r1))
               /\ run' = Idle
          ELSE /\ runs' = runs
               /\ run' = [r1 EXCEPT !.pc = "create"]
    /\ UNCHANGED <<archived, del, peer, associations, entity, source, dealstage, idMap,
                   checkpoints, failures, hubspot>>

\* await coreApi.create(objectType, payload)
EnsureCreate ==
    /\ entity \in EnsureFunctions
    /\ run.pc = "create"
    /\ LET status == source[1].create
           r1 == [run EXCEPT !.creates = @ + 1]
       IN /\ runs' = Append(runs, Finished(IF status # 200 /\ CreateFailureRaised(entity, status)
                                           THEN "threw" ELSE "returned", r1))
          /\ hubspot' = IF status = 200
                        THEN Append(hubspot, [objectType |-> "properties", ghlId |-> 1])
                        ELSE hubspot
    /\ run' = Idle
    /\ UNCHANGED <<archived, del, peer, associations, entity, source, dealstage, idMap,
                   checkpoints, failures>>

InitEnsure ==
    /\ entity \in EnsureFunctions
    /\ source \in [1..1 -> PropertyCalls]
    /\ dealstage = "configured"
    /\ idMap = {}
    /\ checkpoints = [c \in CheckpointIds |-> NoCheckpoint]
    /\ failures = {}
    /\ hubspot = <<>>
    /\ run = Idle
    /\ runs = <<>>
    /\ associations = {}
    /\ peer = "idle"
    /\ archived = {}
    /\ del = [pc |-> "idle"]

NextEnsure == StartEnsure \/ EnsureLookup \/ EnsureCreate

SpecEnsure == InitEnsure /\ [][NextEnsure]_vars

(***************************************************************************)
(* Classification of a conversation message (migrateConversations.mjs).    *)
(* A JavaScript string is the sequence of its characters.  A message field *)
(* is absent, a number or a string: [kind, num, str].                      *)
(***************************************************************************)
UpperCaseLetters == <<"A", "B", "C", "D", "E", "F", "G", "H", "I", "J", "K", "L", "M", "N", "O", "P", "Q", "R", "S", "T", "U", "V", "W", "X", "Y", "Z">>

LowerCaseLetters == <<"a", "b", "c", "d", "e", "f", "g", "h", "i", "j", "k", "l", "m", "n", "o", "p", "q", "r", "s", "t", "u", "v", "w", "x", "y", "z">>

DigitCharacters == <<"0", "1", "2", "3", "4", "5", "6", "7", "8", "9">>

\* String.prototype.toLowerCase / toUpperCase over ASCII
toLowerCase(s) ==
    [i \in DOMAIN s |->
        IF \E n \in DOMAIN UpperCaseLetters : UpperCaseLetters[n] = s[i]
        THEN LowerCaseLetters[CHOOSE n \in DOMAIN UpperCaseLetters : UpperCaseLetters[n] = s[i]]
        ELSE s[i]]

toUpperCase(s) ==
    [i \in DOMAIN s |->
        IF \E n \in DOMAIN LowerCaseLetters : LowerCaseLetters[n] = s[i]
        THEN UpperCaseLetters[CHOOSE n \in DOMAIN LowerCaseLetters : LowerCaseLetters[n] = s[i]]
        ELSE s[i]]

\* String.prototype.includes
includes(s, needle) ==
    \E i \in 0..(Len(s) - Len(needle)) : SubSeq(s, i + 1, i + Len(needle)) = needle

Absent == [kind |-> "absent", num |-> 0, str |-> <<>>]

Number(n) == [kind |-> "number", num |-> n, str |-> <<>>]

Text(s) == [kind |-> "string", num |-> 0, str |-> s]

\* the value is truthy: a number other than 0, a non-empty string
Truthy(v) == (v.kind = "number" /\ v.num # 0) \/ (v.kind = "string" /\ v.str # <<>>)

\* String(v) of a one-digit number or a string
StringOf(v) == IF v.kind = "number" THEN <<DigitCharacters[v.num + 1]>> ELSE v.str

Message(type, channel, messageType) ==
    [type |-> type, channel |-> channel, messageType |-> messageType]

MessageTypes ==
    { Absent, Number(1), Number(2), Number(3), Number(9),
      Text(<<"S", "M", "S">>), Text(<<"t", "e", "x", "t">>), Text(<<"E", "m", "a", "i", "l">>),
      Text(<<"c", "a", "l", "l">>), Text(<<"v", "o", "i", "c", "e", "m", "a", "i", "l">>), Text(<<"f", "b">>) }

MessageChannels ==
    { Absent, Text(<<"s", "m", "s">>), Text(<<"e", "m", "a", "i", "l">>), Text(<<"c", "a", "l", "l">>),
      Text(<<"v", "o", "i", "c", "e", "m", "a", "i", "l">>) }

MessageTypeNames ==
    { Absent, Text(<<"T", "Y", "P", "E", "_", "S", "M", "S">>), Text(<<"T", "Y", "P", "E", "_", "E", "M", "A", "I", "L">>),
      Text(<<"T", "Y", "P", "E", "_", "C", "A", "L", "L">>),
      Text(<<"T", "Y", "P", "E", "_", "A", "C", "T", "I", "V", "I", "T", "Y", "_", "O", "P", "P", "O", "R", "T", "U", "N", "I", "T", "Y">>),
      Text(<<"T", "Y", "P", "E", "_", "I", "N", "T", "E", "R", "N", "A", "L", "_", "C", "O", "M", "M", "E", "N", "T">>),
      Text(<<"T", "Y", "P", "E", "_", "F", "A", "C", "E", "B", "O", "O", "K">>) }

Messages ==
    { Message(type, channel, messageType) :
          type \in MessageTypes, channel \in MessageChannels, messageType \in MessageTypeNames }

\* String(message?.type || message?.channel || message?.messageType || "").toLowerCase()
Raw(message) ==
    toLowerCase(IF Truthy(message.type) THEN StringOf(message.type)
                ELSE IF Truthy(message.channel) THEN StringOf(message.channel)
                ELSE IF Truthy(message.messageType) THEN StringOf(message.messageType)
                ELSE <<>>)

\* typeof message?.type === "number" ? message.type : null (0 for null)
TypeNum(message) == IF message.type.kind = "number" THEN message.type.num ELSE 0

\* String(message?.messageType || "").toUpperCase()
MsgType(message) ==
    toUpperCase(IF Truthy(message.messageType) THEN StringOf(message.messageType) ELSE <<>>)

isSmsMessage(message) ==
    \/ includes(Raw(message), <<"s", "m", "s">>)
    \/ includes(Raw(message), <<"t", "e", "x", "t">>)
    \/ TypeNum(message) = 2
    \/ MsgType(message) = <<"T", "Y", "P", "E", "_", "S", "M", "S">>

isEmailMessage(message) ==
    \/ includes(Raw(message), <<"e", "m", "a", "i", "l">>)
    \/ includes(Raw(message), <<"m", "a", "i", "l">>)
    \/ TypeNum(message) = 3
    \/ MsgType(message) = <<"T", "Y", "P", "E", "_", "E", "M", "A", "I", "L">>

isCallMessage(message) ==
    \/ includes(Raw(message), <<"c", "a", "l", "l">>)
    \/ includes(Raw(message), <<"v", "o", "i", "c", "e", "m", "a", "i", "l">>)
    \/ TypeNum(message) = 1
    \/ MsgType(message) = <<"T", "Y", "P", "E", "_", "C", "A", "L", "L">>

\* isOpportunityActivityMessage || isAppointmentActivityMessage ||
\* isContactActivityMessage || isInternalCommentMessage
isActivityMessage(message) ==
    MsgType(message) \in { <<"T", "Y", "P", "E", "_", "A", "C", "T", "I", "V", "I", "T", "Y", "_", "O", "P", "P", "O", "R", "T", "U", "N", "I", "T", "Y">>,
                           <<"T", "Y", "P", "E", "_", "A", "C", "T", "I", "V", "I", "T", "Y", "_", "A", "P", "P", "O", "I", "N", "T", "M", "E", "N", "T">>,
                           <<"T", "Y", "P", "E", "_", "A", "C", "T", "I", "V", "I", "T", "Y", "_", "C", "O", "N", "T", "A", "C", "T">>,
                           <<"T", "Y", "P", "E", "_", "I", "N", "T", "E", "R", "N", "A", "L", "_", "C", "O", "M", "M", "E", "N", "T">> }

\* the branch of the loop body the message takes:
\* if (isActivity) ... else if (isSms) ... else if (isEmail) ... else if (isCall)
ClassOf(message) ==
    IF isActivityMessage(message) THEN "activity"
    ELSE IF isSmsMessage(message) THEN "sms"
    ELSE IF isEmailMessage(message) THEN "email"
    ELSE IF isCallMessage(message) THEN "call"
    ELSE "none"

\* one message through the classification in a dry run, with a contact mapping
ClassifyMessage ==
    /\ entity = "classifyMessage"
    /\ run.pc = "idle"
    /\ runs = <<>>
    /\ LET class == ClassOf(source[1])
       IN runs' = <<Finished("returned",
                             [pc |-> "done", class |-> class,
                              summary |-> [processedMessages |-> 1,
                                           skippedNonSms |-> IF class = "none" THEN 1 ELSE 0,
                                           created |-> IF class = "none" THEN 0 ELSE 1]])>>
    /\ UNCHANGED <<archived, del, peer, associations, entity, source, dealstage, idMap,
                   checkpoints, failures, hubspot, run>>

InitClassify ==
    /\ entity = "classifyMessage"
    /\ source \in [1..1 -> Messages]
    /\ dealstage = "configured"
    /\ idMap = {}
    /\ checkpoints = [c \in CheckpointIds |-> NoCheckpoint]
    /\ failures = {}
    /\ hubspot = <<>>
    /\ run = Idle
    /\ runs = <<>>
    /\ associations = {}
    /\ peer = "idle"
    /\ archived = {}
    /\ del = [pc |-> "idle"]

NextClassify == ClassifyMessage

SpecClassify == InitClassify /\ [][NextClassify]_vars

(***************************************************************************)
(* The default deal pipeline and stage (migrateOpportunities.mjs).  The    *)
(* id of a pipeline or of a stage is its position in the response; 0 is    *)
(* null.                                                                   *)
(***************************************************************************)
MaxPipelines == 2

MaxStages == 2

MaxDisplayOrder == 1

Stages == [displayOrder : 0..MaxDisplayOrder, isClosed : {"true", "false"}]

Pipelines ==
    [default : BOOLEAN, displayOrder : 0..MaxDisplayOrder, stages : SeqsUpTo(Stages, MaxStages)]

\* [...list].sort((a, b) => a.displayOrder - b.displayOrder)[0], as a position
\* of list among the positions in among: the sort is stable
byDisplayOrder(list, among) ==
    CHOOSE i \in among :
        \A j \in among :
            \/ list[i].displayOrder < list[j].displayOrder
            \/ (list[i].displayOrder = list[j].displayOrder /\ i <= j)

resolveDefaultPipeline(pipelines) ==
    IF Len(pipelines) = 0 THEN 0
    ELSE IF \E i \in DOMAIN pipelines : pipelines[i].default
         THEN CHOOSE i \in DOMAIN pipelines :
                  /\ pipelines[i].default
                  /\ \A j \in 1..(i - 1) : ~pipelines[j].default
         ELSE byDisplayOrder(pipelines, DOMAIN pipelines)

resolveDefaultStage(pipeline) ==
    LET stages == pipeline.stages
        openStages == {i \in DOMAIN stages : stages[i].isClosed # "true"}
        among == IF openStages # {} THEN openStages ELSE DOMAIN stages
    IN IF Len(stages) = 0 THEN 0 ELSE byDisplayOrder(stages, among)

getDefaultPipelineAndStage(pipelines) ==
    LET pipeline == resolveDefaultPipeline(pipelines)
    IN IF pipeline = 0 THEN [pipelineId |-> 0, stageId |-> 0]
       ELSE [pipelineId |-> pipeline, stageId |-> resolveDefaultStage(pipelines[pipeline])]

\* one call of getDefaultPipelineAndStage on the response of pipelinesApi.getAll
GetDefaultPipelineAndStage ==
    /\ entity = "getDefaultPipelineAndStage"
    /\ run.pc = "idle"
    /\ runs = <<>>
    /\ LET result == getDefaultPipelineAndStage(source)
       IN runs' = <<Finished("returned",
                             [pc |-> "done", pipelineId |-> result.pipelineId,
                              stageId |-> result.stageId])>>
    /\ UNCHANGED <<archived, del, peer, associations, entity, source, dealstage, idMap,
                   checkpoints, failures, hubspot, run>>

InitPipelines ==
    /\ entity = "getDefaultPipelineAndStage"
    /\ source \in SeqsUpTo(Pipelines, MaxPipelines)
    /\ dealstage = "configured"
    /\ idMap = {}
    /\ checkpoints = [c \in CheckpointIds |-> NoCheckpoint]
    /\ failures = {}
    /\ hubspot = <<>>
    /\ run = Idle
    /\ runs = <<>>
    /\ associations = {}
    /\ peer = "idle"
    /\ archived = {}
    /\ del = [pc |-> "idle"]

NextPipelines == GetDefaultPipelineAndStage

SpecPipelines == InitPipelines /\ [][NextPipelines]_vars

(***************************************************************************)
(* toHubspotPropertyName (createCustomFields.mjs, cap 50; the contact      *)
(* migrator's copy, cap 100).                                              *)
(***************************************************************************)
PropertyNameCap == 50

ContactPropertyNameCap == 100

MaxTail == 3

\* [a-z0-9]
IsLowerAlnum(c) ==
    \/ \E n \in DOMAIN LowerCaseLetters : LowerCaseLetters[n] = c
    \/ \E n \in DOMAIN DigitCharacters : DigitCharacters[n] = c

\* .replace(/[^a-z0-9]+/g, "_"): of every run of other characters the first
\* one is kept, as an underscore
replaceRuns(s) ==
    CHOOSE replaced \in
        { [k \in 1..Len(kept) |-> IF IsLowerAlnum(s[kept[k]]) THEN s[kept[k]] ELSE "_"] :
              kept \in { SelectSeq([i \in 1..Len(s) |-> i],
                                   LAMBDA i : \/ IsLowerAlnum(s[i])
                                              \/ i = 1
                                              \/ IsLowerAlnum(s[i - 1])) } } : TRUE

\* .replace(/^_+|_+$/g, "")
stripUnderscores(s) ==
    LET kept == {i \in DOMAIN s : s[i] # "_"}
    IN IF kept = {} THEN <<>>
       ELSE SubSeq(s, CHOOSE i \in kept : \A j \in kept : i <= j,
                      CHOOSE i \in kept : \A j \in kept : i >= j)

\* .slice(0, cap)
slice(s, cap) == SubSeq(s, 1, IF Len(s) < cap THEN Len(s) ELSE cap)

\* each call of the chain is applied to the value of the one before it
toHubspotPropertyName(name, cap) ==
    CHOOSE result \in
        { slice(stripped, cap) :
              stripped \in { stripUnderscores(replaced) :
                  replaced \in { replaceRuns(lowered) :
                      lowered \in { toLowerCase(name) } } } } : TRUE

\* the characters the tail of a name is drawn from
NameCharacters == {"a", "B", "7", "_", " ", "-"}

\* the lengths of the run of letters a name starts with
PadLengths ==
    {0, PropertyNameCap - 2, PropertyNameCap - 1, PropertyNameCap,
     ContactPropertyNameCap - 2, ContactPropertyNameCap - 1, ContactPropertyNameCap}

Names ==
    { [i \in 1..n |-> "x"] \o tail : n \in PadLengths, tail \in SeqsUpTo(NameCharacters, MaxTail) }

\* one call of toHubspotPropertyName
ToHubspotPropertyName ==
    /\ entity = "toHubspotPropertyName"
    /\ run.pc = "idle"
    /\ runs = <<>>
    /\ runs' = <<Finished("returned",
                          [pc |-> "done",
                           result |-> toHubspotPropertyName(source[1].name, source[1].cap)])>>
    /\ UNCHANGED <<archived, del, peer, associations, entity, source, dealstage, idMap,
                   checkpoints, failures, hubspot, run>>

InitPropertyName ==
    /\ entity = "toHubspotPropertyName"
    /\ source \in [1..1 -> [name : Names, cap : {PropertyNameCap, ContactPropertyNameCap}]]
    /\ dealstage = "configured"
    /\ idMap = {}
    /\ checkpoints = [c \in CheckpointIds |-> NoCheckpoint]
    /\ failures = {}
    /\ hubspot = <<>>
    /\ run = Idle
    /\ runs = <<>>
    /\ associations = {}
    /\ peer = "idle"
    /\ archived = {}
    /\ del = [pc |-> "idle"]

NextPropertyName == ToHubspotPropertyName

SpecPropertyName == InitPropertyName /\ [][NextPropertyName]_vars

(***************************************************************************)
(* The mapping of a field definition to a property (createCustomFields.mjs)*)
(* mapGhlFieldToHubspotProperty, with the loop over the picklist taken one *)
(* iteration at a time, and normalizeFieldDefinition.  An options list of  *)
(* <<>> stands for undefined as well.                                      *)
(***************************************************************************)
MaxOptions == 3

MappingFunctions == {"mapGhlFieldToHubspotProperty", "normalizeFieldDefinition"}

\* String(ghlField?.dataType || "TEXT").toUpperCase()
DataTypeOf(ghlField) ==
    toUpperCase(IF ghlField.dataType # <<>> THEN ghlField.dataType ELSE <<"T", "E", "X", "T">>)

\* switch (dataType)
TypeOfDataType(dataType) ==
    CASE dataType \in { <<"C", "H", "E", "C", "K", "B", "O", "X">> } ->
             [type |-> "bool", fieldType |-> "booleancheckbox"]
      [] dataType \in { <<"L", "A", "R", "G", "E", "_", "T", "E", "X", "T">> } ->
             [type |-> "string", fieldType |-> "textarea"]
      [] dataType \in { <<"N", "U", "M", "B", "E", "R">>,
                       <<"N", "U", "M", "E", "R", "I", "C">>,
                       <<"N", "U", "M", "E", "R", "I", "C", "A", "L">>,
                       <<"M", "O", "N", "E", "T", "O", "R", "Y">> } ->
             [type |-> "number", fieldType |-> "number"]
      [] dataType \in { <<"D", "A", "T", "E">> } ->
             [type |-> "date", fieldType |-> "date"]
      [] dataType \in { <<"D", "A", "T", "E", "T", "I", "M", "E">> } ->
             [type |-> "datetime", fieldType |-> "datetime"]
      [] dataType \in { <<"D", "R", "O", "P", "D", "O", "W", "N">>,
                       <<"S", "I", "N", "G", "L", "E", "_", "S", "E", "L", "E", "C", "T">>,
                       <<"S", "I", "N", "G", "L", "E", "_", "O", "P", "T", "I", "O", "N", "S">>,
                       <<"R", "A", "D", "I", "O">> } ->
             [type |-> "enumeration", fieldType |-> "select"]
      [] dataType \in { <<"M", "U", "L", "T", "I", "_", "S", "E", "L", "E", "C", "T">>,
                       <<"M", "U", "L", "T", "I", "P", "L", "E", "_", "O", "P", "T", "I", "O", "N", "S">> } ->
             [type |-> "enumeration", fieldType |-> "checkbox"]
      [] dataType \in { <<"P", "H", "O", "N", "E">> } ->
             [type |-> "string", fieldType |-> "phone"]
      [] dataType \in { <<"E", "M", "A", "I", "L">> } ->
             [type |-> "string", fieldType |-> "email"]
      [] dataType \in { <<"W", "E", "B", "S", "I", "T", "E">> } ->
             [type |-> "string", fieldType |-> "text"]
      [] dataType \in { <<"F", "I", "L", "E", "_", "U", "P", "L", "O", "A", "D">> } ->
             [type |-> "string", fieldType |-> "text"]
      [] OTHER -> [type |-> "string", fieldType |-> "text"]

\* typeAliases[normalizedType] || type
typeAliases(type) ==
    LET normalizedType == toLowerCase(type)
    IN
       CASE normalizedType = <<"b", "o", "o", "l", "e", "a", "n">> -> <<"b", "o", "o", "l">>
         [] normalizedType = <<"b", "o", "o", "l">> -> <<"b", "o", "o", "l">>
         [] normalizedType = <<"s", "t", "r", "i", "n", "g">> -> <<"s", "t", "r", "i", "n", "g">>
         [] normalizedType = <<"e", "n", "u", "m", "e", "r", "a", "t", "i", "o", "n">> -> <<"e", "n", "u", "m", "e", "r", "a", "t", "i", "o", "n">>
         [] normalizedType = <<"n", "u", "m", "b", "e", "r">> -> <<"n", "u", "m", "b", "e", "r">>
         [] normalizedType = <<"n", "u", "m", "e", "r", "i", "c">> -> <<"n", "u", "m", "b", "e", "r">>
         [] normalizedType = <<"d", "a", "t", "e", "t", "i", "m", "e">> -> <<"d", "a", "t", "e", "t", "i", "m", "e">>
         [] normalizedType = <<"d", "a", "t", "e">> -> <<"d", "a", "t", "e">>
         [] normalizedType = <<"p", "h", "o", "n", "e">> -> <<"p", "h", "o", "n", "e", "_", "n", "u", "m", "b", "e", "r">>
         [] normalizedType = <<"p", "h", "o", "n", "e", "_", "n", "u", "m", "b", "e", "r">> -> <<"p", "h", "o", "n", "e", "_", "n", "u", "m", "b", "e", "r">>
         [] OTHER -> type

\* toHubspotEnumValue(value, fallback): normalized || fallback || "option"
toHubspotEnumValue(value, fallback) ==
    LET normalized == toHubspotPropertyName(value, PropertyNameCap)
    IN IF normalized # <<>> THEN normalized
       ELSE IF fallback # <<>> THEN fallback
       ELSE <<"o", "p", "t", "i", "o", "n">>

\* `option_${index + 1}`, index + 1 being the position in the picklist
FallbackValue(position) == <<"o", "p", "t", "i", "o", "n", "_">> \o <<DigitCharacters[position + 1]>>

\* a set that reports no value as used
hasNever(usedValues, value) == FALSE

\* usedValues.has(value)
has(usedValues, value) == value \in usedValues

\* `${value}_${usedValues.size + 1}`
Suffixed(value, usedValues) == value \o <<"_", DigitCharacters[Cardinality(usedValues) + 2]>>

TrueFalseOptions ==
    << [label |-> <<"T", "r", "u", "e">>, value |-> <<"t", "r", "u", "e">>],
       [label |-> <<"F", "a", "l", "s", "e">>, value |-> <<"f", "a", "l", "s", "e">>] >>

\* normalizeFieldDefinition of a field object: type, fieldType and options
normalizeFieldDefinition(field) ==
    LET options == field.options
        given == IF field.type # <<>> THEN field.type
                 ELSE IF Len(options) > 0 THEN <<"e", "n", "u", "m", "e", "r", "a", "t", "i", "o", "n">>
                 ELSE <<"s", "t", "r", "i", "n", "g">>
        type == typeAliases(given)
        normalizedOptions == IF type = <<"b", "o", "o", "l">> /\ Len(options) = 0
                             THEN TrueFalseOptions ELSE options
    IN IF type = <<"b", "o", "o", "l">>
       THEN [type |-> "enumeration", fieldType |-> "booleancheckbox",
             options |-> normalizedOptions]
       ELSE [type |-> IF type = <<"e", "n", "u", "m", "e", "r", "a", "t", "i", "o", "n">> THEN "enumeration" ELSE "other",
             fieldType |-> IF type = <<"e", "n", "u", "m", "e", "r", "a", "t", "i", "o", "n">> THEN "select" ELSE "text",
             options |-> normalizedOptions]

PicklistLabels ==
    { <<"a">>, <<"A">>, <<"a", " ", "3">>, <<"a", " ", "2">>, <<"!">>, <<"o", "p", "t", "i", "o", "n", " ", "2">> }

FieldDataTypes ==
    { <<>>, <<"C", "H", "E", "C", "K", "B", "O", "X">>, <<"c", "h", "e", "c", "k", "b", "o", "x">>, <<"D", "R", "O", "P", "D", "O", "W", "N">>, <<"R", "a", "d", "i", "o">>, <<"M", "U", "L", "T", "I", "_", "S", "E", "L", "E", "C", "T">>, <<"N", "U", "M", "B", "E", "R">>, <<"T", "E", "X", "T">> }

FieldTypes ==
    { <<>>, <<"b", "o", "o", "l", "e", "a", "n">>, <<"B", "o", "o", "l">>, <<"s", "t", "r", "i", "n", "g">>, <<"e", "n", "u", "m", "e", "r", "a", "t", "i", "o", "n">> }

GivenOptions ==
    { <<>>, <<[label |-> <<"Y", "e", "s">>, value |-> <<"y", "e", "s">>]>> }

FieldDefinitions ==
    [function : {"mapGhlFieldToHubspotProperty"}, dataType : FieldDataTypes,
     picklistOptions : SeqsUpTo(PicklistLabels, MaxOptions), type : {<<>>}, options : {<<>>}]
    \cup
    [function : {"normalizeFieldDefinition"}, dataType : {<<>>, <<"C", "H", "E", "C", "K", "B", "O", "X">>},
     picklistOptions : {<<>>}, type : FieldTypes, options : GivenOptions]

\* mapGhlFieldToHubspotProperty up to the loop over the picklist
StartMap ==
    /\ entity = "mapFieldDefinition"
    /\ run.pc = "idle"
    /\ runs = <<>>
    /\ source[1].function = "mapGhlFieldToHubspotProperty"
    /\ LET mapped == TypeOfDataType(DataTypeOf(source[1]))
           r == [pc |-> "map", type |-> mapped.type, fieldType |-> mapped.fieldType,
                 options |-> <<>>, usedValues |-> {}, value |-> <<>>, iterations |-> 0]
       IN IF mapped.type = "enumeration"
          THEN run' = r /\ UNCHANGED runs
          ELSE runs' = <<Finished("returned", [r EXCEPT !.pc = "done"])>> /\ UNCHANGED run
    /\ UNCHANGED <<archived, del, peer, associations, entity, source, dealstage, idMap,
                   checkpoints, failures, hubspot>>

\* picklist.map callback: let value = toHubspotEnumValue(labelText, `option_${index + 1}`)
MapOption ==
    /\ entity = "mapFieldDefinition"
    /\ run.pc = "map"
    /\ Len(run.options) < Len(source[1].picklistOptions)
    /\ LET position == Len(run.options) + 1
       IN run' = [run EXCEPT !.pc = "while", !.iterations = 0,
                             !.value = toHubspotEnumValue(source[1].picklistOptions[position],
                                                          FallbackValue(position))]
    /\ UNCHANGED <<archived, del, peer, associations, entity, source, dealstage, idMap,
                   checkpoints, failures, hubspot, runs>>

\* one iteration of while (usedValues.has(value))
MapWhile ==
    /\ entity = "mapFieldDefinition"
    /\ run.pc = "while"
    /\ has(run.usedValues, run.value)
    /\ run' = [run EXCEPT !.value = Suffixed(run.value, run.usedValues),
                          !.iterations = @ + 1]
    /\ UNCHANGED <<archived, del, peer, associations, entity, source, dealstage, idMap,
                   checkpoints, failures, hubspot, runs>>

\* the loop is left: usedValues.add(value); return { label: labelText, value }
MapAdd ==
    /\ entity = "mapFieldDefinition"
    /\ run.pc = "while"
    /\ ~has(run.usedValues, run.value)
    /\ run' = [run EXCEPT !.pc = "map",
                          !.usedValues = @ \cup {run.value},
                          !.options = Append(@, [label |-> source[1].picklistOptions[Len(@) + 1],
                                                 value |-> run.value])]
    /\ UNCHANGED <<archived, del, peer, associations, entity, source, dealstage, idMap,
                   checkpoints, failures, hubspot, runs>>

\* return { name, label, type, fieldType, options }
MapReturn ==
    /\ entity = "mapFieldDefinition"
    /\ run.pc = "map"
    /\ Len(run.options) = Len(source[1].picklistOptions)
    /\ runs' = <<Finished("returned", [run EXCEPT !.pc = "done"])>>
    /\ run' = Idle
    /\ UNCHANGED <<archived, del, peer, associations, entity, source, dealstage, idMap,
                   checkpoints, failures, hubspot>>

\* one call of normalizeFieldDefinition
NormalizeFieldDefinition ==
    /\ entity = "mapFieldDefinition"
    /\ run.pc = "idle"
    /\ runs = <<>>
    /\ source[1].function = "normalizeFieldDefinition"
    /\ LET normalized == normalizeFieldDefinition(source[1])
       IN runs' = <<Finished("returned",
                             [pc |-> "done", type |-> normalized.type,
                              fieldType |-> normalized.fieldType,
                              options |-> normalized.options, usedValues |-> {},
                              value |-> <<>>, iterations |-> 0])>>
    /\ UNCHANGED <<archived, del, peer, associations, entity, source, dealstage, idMap,
                   checkpoints, failures, hubspot, run>>

InitMapField ==
    /\ entity = "mapFieldDefinition"
    /\ source \in [1..1 -> FieldDefinitions]
    /\ dealstage = "configured"
    /\ idMap = {}
    /\ checkpoints = [c \in CheckpointIds |-> NoCheckpoint]
    /\ failures = {}
    /\ hubspot = <<>>
    /\ run = Idle
    /\ runs = <<>>
    /\ associations = {}
    /\ peer = "idle"
    /\ archived = {}
    /\ del = [pc |-> "idle"]

NextMapField ==
    \/ StartMap
    \/ MapOption
    \/ MapWhile
    \/ MapAdd
    \/ MapReturn
    \/ NormalizeFieldDefinition

SpecMapField == InitMapField /\ [][NextMapField]_vars /\ WF_vars(NextMapField)

(***************************************************************************)
(* Properties.                                                             *)
(***************************************************************************)
Min(a, b) == IF a <= b THEN a ELSE b

\* the first invocation was a non-dry run that returned, and every record of
\* the stream was created by it with a returned id
FirstRunCreatedAll ==
    /\ Len(runs) >= 1
    /\ runs[1].outcome = "returned"
    /\ ~runs[1].r.dryRun
    /\ Len(source) > 0
    /\ \A k \in 1..Len(source) : source[k].id = "set" /\ source[k].create = "ok"
    /\ runs[1].r.summary.created = Len(source)

NoCreateAllSkipped(r) ==
    /\ r.creates = 0
    /\ r.summary.created = 0
    /\ r.summary.skippedAlreadyMapped = Len(r.handled)

\* C1: opportunity, appointment and calendar migrators: after a non-dry run
\* in which every record was created with a returned id, a later run with
\* resume=false makes no destination create call, and every record it scans
\* (all of them when it has no limit) is counted in skippedAlreadyMapped.
C1_RerunSkipsEveryMappedRecord ==
    (entity \in CursorEntities /\ FirstRunCreatedAll) =>
        /\ (run.pc # "idle" /\ ~run.resume) => NoCreateAllSkipped(run)
        /\ \A i \in 2..Len(runs) :
              ~runs[i].r.resume =>
                  /\ NoCreateAllSkipped(runs[i].r)
                  /\ Len(runs[i].r.handled) =
                        IF runs[i].r.limit = 0 THEN Len(source)
                        ELSE Min(runs[i].r.limit, Len(source))

C1_Witness ==
    /\ entity = "opportunity"
    /\ FirstRunCreatedAll
    /\ Len(source) >= 2
    /\ Len(runs) = 2
    /\ ~runs[2].r.resume /\ ~runs[2].r.dryRun /\ runs[2].r.limit = 0
    /\ runs[2].r.summary.skippedAlreadyMapped = Len(source)
    /\ Len(hubspot) = Len(source)

\* C2: the contact migrator run twice, non-dry, resume=false both times, no
\* limit and no reset: the second run creates no new destination contact and
\* no new destination company.
C2_ContactRerunCreatesNothing ==
    (/\ entity = "contact"
     /\ Len(runs) = 1
     /\ runs[1].outcome = "returned"
     /\ ~runs[1].r.dryRun /\ ~runs[1].r.resume /\ runs[1].r.limit = 0
     /\ run.pc # "idle"
     /\ ~run.dryRun /\ ~run.resume /\ run.limit = 0)
    => Len(hubspot) = run.objectsAtStart

\* the records the opportunity scan returns, in order
Scan == SelectSeq(Positions(1, Len(source)), IdQuery)

AddSummaries(a, b) == [f \in DOMAIN a |-> a[f] + b[f]]

\* what one uninterrupted run over a store holding no opportunity mapping
\* counts for record k
OppCounters(k, dryRun) ==
    LET rec == source[k]
        staged == FallbackStage(dryRun)
    IN IF rec.id # "set"
       THEN NewSummary("opportunity")
       ELSE [processed |-> 1,
             created |-> IF staged /\ (dryRun \/ rec.create # "fail") THEN 1 ELSE 0,
             skippedMissingStage |-> IF staged THEN 0 ELSE 1,
             skippedAlreadyMapped |-> 0,
             errors |-> (IF ~dryRun /\ rec.tags = "throws" THEN 1 ELSE 0)
                        + (IF staged /\ ~dryRun /\ rec.create = "fail" THEN 1 ELSE 0)]

RECURSIVE UninterruptedSummary(_, _)
UninterruptedSummary(ks, dryRun) ==
    IF ks = <<>> THEN NewSummary("opportunity")
    ELSE AddSummaries(OppCounters(Head(ks), dryRun), UninterruptedSummary(Tail(ks), dryRun))

\* the invocation stopped after a prefix of the scan: by its limit, or killed
\* between two records
StoppedAfterPrefix(f) ==
    \/ f.outcome = "returned" /\ f.r.limit # 0
    \/ f.outcome = "killed" /\ f.at = "fetch"

\* C3: opportunity migrator: when a first run stops after the first N of M
\* records (limit N, or interrupted between two records), a following run
\* with resume=true handles exactly records N+1..M and returns, and the two
\* summaries add up, counter by counter, to the summary of one uninterrupted
\* run over all M records.
C3_ResumedRunsAddUp ==
    (/\ entity = "opportunity"
     /\ Len(runs) = 2
     /\ StoppedAfterPrefix(runs[1])
     /\ runs[2].outcome # "killed"
     /\ runs[2].r.resume /\ runs[2].r.limit = 0
     /\ runs[2].r.dryRun = runs[1].r.dryRun)
    => /\ runs[2].outcome = "returned"
       /\ runs[1].r.handled \o runs[2].r.handled = Scan
       /\ AddSummaries(runs[1].r.summary, runs[2].r.summary)
             = UninterruptedSummary(Scan, runs[1].r.dryRun)

\* the stored checkpoint of the stream under study
Checkpoint == loadCheckpoint(DEFAULT_CHECKPOINT_ID(entity))

\* position `new` is not before position `old` in the stream's order
NotEarlier(new, old) ==
    IF entity = "conversation"
    THEN \/ new.lastConversationId > old.lastConversationId
         \/ /\ new.lastConversationId = old.lastConversationId
            /\ new.lastMessageId >= old.lastMessageId
    ELSE new.lastId >= old.lastId

NextReadEnabled ==
    \/ run.pc = "message"
    \/ /\ run.pc = "fetch"
       /\ run.cursor # <<>>
       /\ ~(entity = "contact" /\ LimitReached)

\* C5: every entity migrator: when the next record (for conversations, the
\* next message) is about to be read, the stored checkpoint is the position
\* of the record or message handled last, whatever its outcome was.
C5_CheckpointFollowsEveryRecord ==
    (NextReadEnabled /\ run.handled # <<>>) =>
        IF entity = "conversation"
        THEN /\ Checkpoint.lastConversationId = run.cur
             /\ Checkpoint.lastMessageId = run.handled[Len(run.handled)]
        ELSE Checkpoint.lastId = run.handled[Len(run.handled)]

\* the kill fell after the in-flight record's destination create and before
\* an identity mapping for it was written
KilledBetweenCreateAndMapping(f) ==
    \/ f.at = "map"
    \/ f.at = "save" /\ f.r.creates > 0 /\ source[f.r.cur].create = "noid"
          /\ f.r.recCalls > 0

\* C6: opportunity migrator killed at an arbitrary point and restarted with
\* resume=true: no record of the scan is left unprocessed, only the record
\* in flight at the kill is handled twice, and a second deal for one
\* opportunity arises only when the kill fell between the destination create
\* and the identity-mapping write.
C6_KillLosesAtMostTheRecordInFlight ==
    (/\ entity = "opportunity"
     /\ Len(runs) = 2
     /\ runs[1].outcome = "killed"
     /\ ~runs[1].r.dryRun /\ runs[1].r.limit = 0
     /\ runs[2].outcome # "killed"
     /\ runs[2].r.resume /\ ~runs[2].r.dryRun /\ runs[2].r.limit = 0)
    => LET first == Range(runs[1].r.handled)
           second == Range(runs[2].r.handled)
       IN /\ Range(Scan) \subseteq first \cup second
          /\ \A k \in first \cap second :
                k = runs[1].r.cur /\ runs[1].at # "fetch"
          /\ \A i \in DOMAIN hubspot : \A j \in DOMAIN hubspot :
                (i < j /\ hubspot[i].ghlId = hubspot[j].ghlId)
                    => KilledBetweenCreateAndMapping(runs[1])

\* record (or message) position p raises an error when it is handled
Errored(p) ==
    CASE entity \in CursorEntities \cup {"contact"} ->
             source[p].badDate \/ source[p].create = "fail"
      [] entity = "note" -> source[p].create = "fail"
      [] entity = "conversation" -> source[p \div 10].messages[p % 10] = "smsFail"

CheckpointPosition ==
    IF entity = "conversation" THEN Checkpoint.lastMessageId ELSE Checkpoint.lastId

\* the invocation ran its scan to the end
ScanExhausted(r) ==
    \/ r.cursor = <<>>
    \/ entity = "contact" /\ r.limit # 0 /\ r.summary.processed >= r.limit

\* C7: every entity migrator: an error raised while handling one record (a
\* failed create, an exception while transforming its fields) is confined to
\* it: the run handles every later record of its scan and returns its
\* summary, and the checkpoint is not left before the record that failed.
C7_RecordErrorsAreConfined ==
    \A i \in 1..Len(runs) :
        runs[i].at # "start" =>
            /\ runs[i].outcome = "returned"
            /\ ScanExhausted(runs[i].r)
            /\ (i = Len(runs) /\ run.pc = "idle") =>
                  \A p \in Range(runs[i].r.handled) : Errored(p) => CheckpointPosition >= p

\* the migrator has finished handling record k
FinishedHandling(k) ==
    \/ \E i \in 1..Len(runs) : k \in Range(runs[i].r.handled)
    \/ /\ run.pc # "idle"
       /\ k \in Range(run.handled)
       /\ (k # run.cur \/ run.pc = "fetch")

\* C8: a contact without email is never passed to the destination contact
\* create, and once the contact migrator has finished handling it the
\* failure log holds the record (contact, its id) with reason "missing email".
C8_MissingEmailIsRecorded ==
    entity = "contact" =>
        \A k \in 1..Len(source) :
            (~source[k].email /\ source[k].id = "set" /\ FinishedHandling(k)) =>
                /\ \A j \in DOMAIN hubspot :
                      ~(hubspot[j].objectType = "contacts" /\ hubspot[j].ghlId = k)
                /\ [entityType |-> "contact", ghlId |-> k, reason |-> "missing email"]
                      \in failures

\* C9: non-dry opportunity run with no dealstage configured and none
\* resolved: every unmapped opportunity is skipped with skippedMissingStage
\* + 1 and errors unchanged, its failure record has reason "missing
\* dealstage", and no destination call is made for it.
C9_MissingStageIsACleanSkip ==
    (/\ entity = "opportunity"
     /\ dealstage = "none"
     /\ run.pc \in {"save", "fetch"}
     /\ ~run.dryRun)
    => LET skipped == { k \in Range(run.handled) : source[k].id = "set" }
       IN /\ run.summary.skippedMissingStage = Cardinality(skipped)
          /\ run.summary.errors = 0
          /\ run.recCalls = 0
          /\ \A k \in skipped :
                [entityType |-> "opportunity", ghlId |-> k,
                 reason |-> "missing dealstage"] \in failures

\* C10: in dry-run mode no entity migrator makes a destination API call or
\* writes, changes or deletes an identity mapping.
C10_DryRunTouchesNothing ==
    (run.pc # "idle" /\ run.dryRun) =>
        /\ run.calls = 0
        /\ run.creates = 0
        /\ run.mapWrites = 0
        /\ Len(hubspot) = run.objectsAtStart
        /\ idMap = run.idMapAtStart

C10_Witness ==
    /\ entity = "conversation"
    /\ run.pc = "fetch"
    /\ run.dryRun
    /\ run.handled # <<>>
    /\ run.summary.createdNotes >= 2
    /\ idMap = run.idMapAtStart
\* C11: the notes migrator writes an identity mapping (note id, "note") ->
\* destination id for every note it creates, before it handles the next
\* note, so that no note is created a second time by a re-run.
C11_CreatedNoteIsMappedOnce ==
    entity = "note" =>
        /\ \A j \in DOMAIN hubspot :
              FinishedHandling(hubspot[j].ghlId) =>
                  findHubspotId(hubspot[j].ghlId, "note") = j
        /\ \A i \in DOMAIN hubspot : \A j \in DOMAIN hubspot :
              hubspot[i].ghlId = hubspot[j].ghlId => i = j

\* C12: once a contact has been migrated (destination contact and companion
\* company created, contact mapping written) the identity map holds an entry
\* of object type "company" that points to the created company.
C12_CompanyIsMapped ==
    entity = "contact" =>
        \A k \in 1..Len(source) :
            findHubspotId(k, "contact") # 0 =>
                \E m \in idMap :
                    /\ m.objectTypeId = "company"
                    /\ m.hubspotId \in DOMAIN hubspot
                    /\ hubspot[m.hubspotId].objectType = "companies"
                    /\ hubspot[m.hubspotId].ghlId = k

\* the entity type under which a migrator files its failure records
FailureEntityType(e) == IF e = "conversation" THEN "conversation_message" ELSE e

\* handling record (or message) p in a non-dry first run raises one error
RaisesError(p) ==
    CASE entity = "opportunity" ->
             source[p].id = "set"
             /\ (source[p].tags = "throws"
                 \/ (source[p].create = "fail" /\ FallbackStage(FALSE)))
      [] entity \in {"appointment", "calendar"} ->
             source[p].id = "set" /\ source[p].create = "fail"
      [] entity = "contact" ->
             \/ ~source[p].email
             \/ source[p].badDate
             \/ source[p].create = "fail"
             \/ source[p].company # "ok"
      [] entity = "note" ->
             source[p].relation = "mapped" /\ source[p].body /\ source[p].create = "fail"
      [] entity = "conversation" ->
             source[p \div 10].contact = "mapped"
             /\ source[p \div 10].messages[p % 10] = "smsFail"

\* the error counter of a run's summary
ErrorCounter(r) == IF entity = "contact" THEN r.summary.failed ELSE r.summary.errors

\* the destination create call of the record in hand has just failed
CreateJustFailed ==
    /\ run.pc = "save"
    /\ ~run.dryRun
    /\ run.creates > 0
    /\ IF entity = "conversation"
       THEN source[run.cur].messages[run.msg] = "smsFail"
       ELSE source[run.cur].create = "fail"

\* C13: every entity migrator: when the destination create call for a record
\* fails, a failure record keyed by (entity type, source id) and holding the
\* error detail exists afterwards, and the error counter of the run has
\* gone up by one for that record.
C13_FailedCreateIsRecorded ==
    (Len(runs) = 0 /\ CreateJustFailed) =>
        LET p == run.handled[Len(run.handled)]
        IN /\ \E f \in failures :
                 /\ f.entityType = FailureEntityType(entity)
                 /\ f.ghlId = p
                 /\ f.reason \in {"create error", "migration error: create error"}
           /\ ErrorCounter(run) = Cardinality({ q \in Range(run.handled) : RaisesError(q) })

\* C15: when the destination schema offers no resolvable association type
\* for notes -> contacts or notes -> deals, a non-dry run of the notes
\* migrator still handles the notes of its scan and returns its summary.
C15_NotesRunWithoutAssociationType ==
    entity = "note" =>
        \A i \in 1..Len(runs) :
            (~runs[i].r.dryRun /\ ~runs[i].r.associationTypes) =>
                /\ runs[i].outcome = "returned"
                /\ runs[i].r.handled =
                      NoteCursorFrom(runs[i].r.checkpointAtStart, runs[i].r.resume,
                                     runs[i].r.limit)

\* C16: an opportunity processed while its contact had no identity mapping
\* gets its deal associated with that contact by a later full re-run
\* (resume=false, non-dry, no limit) of the opportunity migrator that starts
\* once the contact mapping exists.
C16_LaterRerunAssociatesDeal ==
    (/\ entity = "opportunity"
     /\ Len(runs) = 2
     /\ runs[1].outcome = "returned" /\ ~runs[1].r.dryRun
     /\ runs[2].outcome = "returned"
     /\ ~runs[2].r.resume /\ ~runs[2].r.dryRun /\ runs[2].r.limit = 0
     /\ \E m \in runs[2].r.idMapAtStart :
           m.ghlId = UnmappedContact /\ m.objectTypeId = "contact")
    => \A j \in DOMAIN hubspot :
          source[hubspot[j].ghlId].contactId = UnmappedContact =>
              [deal |-> j, contact |-> UnmappedContactHubspotId] \in associations

Last(s) == s[Len(s)]

\* the checkpoint a first run with the flags of r leaves when it runs alone
\* and returns: the position of the last record (or message) of its scan
\* whose handling saves the checkpoint
AloneCheckpoint(r) ==
    IF entity = "conversation"
    THEN LET scan == IF r.limit # 0 THEN Take(Positions(1, Len(source)), r.limit)
                     ELSE Positions(1, Len(source))
             saved == UNION { { MessageId(k, i) : i \in 1..Len(source[k].messages) } :
                              k \in Range(scan) }
             saving == { p \in saved : /\ source[p \div 10].contact = "mapped"
                                       /\ source[p \div 10].messages[p % 10] # "other" }
         IN IF saving = {} THEN NoCheckpoint
            ELSE LET p == CHOOSE q \in saving : \A q2 \in saving : q2 <= q
                 IN [NoCheckpoint EXCEPT !.lastConversationId = p \div 10,
                                         !.lastMessageId = p]
    ELSE LET scan == IF entity = "note" THEN NoteCursorFrom(0, r.resume, r.limit)
                     ELSE IF r.limit # 0 THEN Take(Scan, r.limit) ELSE Scan
         IN IF scan = <<>> THEN NoCheckpoint
            ELSE [NoCheckpoint EXCEPT !.lastId = Last(scan)]

\* a step of the stream under study leaves the contact stream's checkpoint
\* alone, and a step of the contact stream leaves this stream's alone
DisjointCheckpoints ==
    /\ peer' = peer =>
          checkpoints'[DEFAULT_CHECKPOINT_ID("contact")]
              = checkpoints[DEFAULT_CHECKPOINT_ID("contact")]
    /\ peer' # peer => Checkpoint' = Checkpoint

FirstRunReturned ==
    /\ Len(runs) = 1
    /\ run.pc = "idle"
    /\ runs[1].outcome = "returned"

\* C17: a stream running concurrently with the contact stream, both with
\* their default checkpoint ids: under any interleaving neither writes the
\* other's checkpoint document, and the stream's final checkpoint is the one
\* it reaches when it runs alone.
C17_ConcurrentStreamsAreIndependent ==
    /\ [][entity # "contact" => DisjointCheckpoints]_vars
    /\ []((entity # "contact" /\ FirstRunReturned) => Checkpoint = AloneCheckpoint(runs[1].r))

\* what the claim says a reset of entity E with checkpoint id C removes
ResetRemovesExactly(E, C) ==
    /\ idMap' = { m \in idMap : m.objectTypeId # E }
    /\ failures' = { f \in failures : f.entityType # E }
    /\ \A c \in CheckpointIds :
          checkpoints'[c] = IF C = "" \/ c = C THEN NoCheckpoint ELSE checkpoints[c]

\* a step of a migrator run: it starts, moves on or ends
MigratorStep == run' # run \/ runs' # runs

\* no identity mapping, failure record or checkpoint document goes away
NothingRemoved ==
    /\ \A m \in idMap : \E n \in idMap' :
          n.ghlId = m.ghlId /\ n.objectTypeId = m.objectTypeId
    /\ \A f \in failures : \E g \in failures' :
          g.entityType = f.entityType /\ g.ghlId = f.ghlId
    /\ \A c \in CheckpointIds : checkpoints[c] # NoCheckpoint => checkpoints'[c] # NoCheckpoint

\* C14: a reset of entity E (named as typed, in any letter case) with
\* checkpoint id C removes exactly the identity mappings of object type E,
\* the failure records of entity type E and checkpoint C (every checkpoint
\* when C is not given), leaves mappings and failure records of other types
\* unchanged, and no step of a migrator run removes any of them.
C14_ResetRemovesExactlyItsEntity ==
    [][IF MigratorStep
       THEN NothingRemoved
       ELSE \A name \in ResetNames : \A C \in ResetCheckpointIds :
               resetMigrationState(name, C) => ResetRemovesExactly(Normalized(name), C)]_vars

C14_Witness ==
    /\ entity = "opportunity"
    /\ run.pc = "idle"
    /\ Len(runs) = 1
    /\ runs[1].r.mapWrites > 0
    /\ \E k \in Range(runs[1].r.handled) : source[k].contactId = UnmappedContact
    /\ \A m \in idMap : m.objectTypeId # "opportunity"
    /\ \E m \in idMap : m.objectTypeId = "contact"
    /\ \A f \in failures : f.entityType # "opportunity"
    /\ Checkpoint = NoCheckpoint

\* C18: no step of an entity migrator run, whatever its flags and however it
\* ends (returned, rejected or killed), inserts, updates or deletes a
\* document of the staged source collection.
C18_SourceIsNeverWritten == [][source' = source]_vars

C18_Witness ==
    /\ Len(runs) = 2
    /\ runs[1].outcome = "killed"
    /\ runs[1].r.creates > 0
    /\ runs[2].outcome = "returned"
    /\ runs[2].r.handled # <<>>
    /\ idMap # {}
    /\ failures # {}
    /\ Checkpoint # NoCheckpoint

\* the destination objects created for message p since run r started
CreatedSince(r, p) ==
    { j \in DOMAIN hubspot : j > r.objectsAtStart /\ hubspot[j].ghlId = p }

\* C19: a conversation run restarted with resume=true from a checkpoint
\* (lastConversationId, lastMessageId) does not handle the message named by
\* lastMessageId again and creates no destination object for it.
C19_CheckpointedMessageIsNotHandledAgain ==
    (/\ entity = "conversation"
     /\ run.pc # "idle"
     /\ run.resume
     /\ run.startMessageId # 0)
    => /\ run.startMessageId \notin Range(run.handled)
       /\ CreatedSince(run, run.startMessageId) = {}

\* C20: the conversation migrator never issues a destination create for a
\* message that already has an identity mapping of the object type it is
\* about to create.
C20_NoCreateForMappedMessage ==
    (entity = "conversation" /\ run.pc = "create") =>
        findHubspotId(MessageId(run.cur, run.msg), "note") = 0

\* C21 as stated: opportunity, appointment and calendar migrators: in every
\* reachable state, a record whose create returned an id in a non-dry run
\* and that the checkpoint is at or past has its identity mapping.
C21_MappedAtOrBeforeCheckpoint ==
    entity \in CursorEntities =>
        \A j \in DOMAIN hubspot :
            (/\ source[hubspot[j].ghlId].create = "ok"
             /\ Checkpoint.lastId >= hubspot[j].ghlId)
            => findHubspotId(hubspot[j].ghlId, MapObjectType(entity)) # 0

\* the run in progress has written the checkpoint for record k
SavedByRun(k) ==
    /\ k \in Range(run.handled)
    /\ (k # run.cur \/ run.pc = "fetch")

\* C21, amended: opportunity, appointment and calendar migrators: a non-dry
\* run writes the identity mapping of a record it has created (create
\* returned an id) before it writes the checkpoint for that record: once
\* the run has saved the checkpoint at the record, the mapping to the
\* created object is present.
C21_MappingBeforeCheckpointWrite ==
    (entity \in CursorEntities /\ run.pc # "idle") =>
        \A j \in DOMAIN hubspot :
            (/\ j > run.objectsAtStart
             /\ source[hubspot[j].ghlId].create = "ok"
             /\ SavedByRun(hubspot[j].ghlId))
            => /\ findHubspotId(hubspot[j].ghlId, MapObjectType(entity)) = j
               /\ Checkpoint.lastId >= hubspot[j].ghlId

C21_Witness ==
    /\ entity = "appointment"
    /\ run.pc = "fetch"
    /\ ~run.dryRun
    /\ run.mapWrites > 0
    /\ \E j \in DOMAIN hubspot :
          /\ j > run.objectsAtStart
          /\ SavedByRun(hubspot[j].ghlId)
          /\ findHubspotId(hubspot[j].ghlId, MapObjectType(entity)) = j
          /\ Checkpoint.lastId = hubspot[j].ghlId


(***************************************************************************)
(* C22: the "contact" mapping of a created contact.                        *)
(***************************************************************************)
\* the contact migrator stands inside the handling of source contact k
HandlingContact(k) == run.pc \notin {"idle", "fetch"} /\ GhlId(run.cur) = k

\* C22: whenever the contact migrator has finished handling a contact whose
\* destination contact was created, the identity map holds (contact id,
\* "contact") -> a contact created for it, also when the creation of the
\* companion company or of its association failed afterwards.
C22_CreatedContactIsMapped ==
    entity = "contact" =>
        \A j \in DOMAIN hubspot :
            (hubspot[j].objectType = "contacts" /\ ~HandlingContact(hubspot[j].ghlId))
            => LET h == findHubspotId(hubspot[j].ghlId, "contact")
               IN /\ h \in DOMAIN hubspot
                  /\ hubspot[h] = hubspot[j]

(***************************************************************************)
(* C23: the limit of a run.                                                *)
(***************************************************************************)
\* the source records a run has taken from its stream
HandledRecords(r) ==
    IF entity = "conversation" THEN r.summary.processedConversations ELSE Len(r.handled)

\* C23: a run with limit = L handles at most L source records, whatever their
\* outcomes, in the contact migrator as in the cursor-limited migrators.
C23_LimitBoundsHandledRecords ==
    /\ (run.pc \notin {"idle", "start"} /\ run.limit # 0) => HandledRecords(run) <= run.limit
    /\ \A i \in DOMAIN runs :
          (runs[i].at # "start" /\ runs[i].r.limit # 0)
          => HandledRecords(runs[i].r) <= runs[i].r.limit

(***************************************************************************)
(* C24: association-schema lookups of a run.                               *)
(***************************************************************************)
\* C24: within one run definitionsApi.getAll is invoked at most once per
\* (fromType, toType) pair, however many records the run handles.
C24_SchemaLookupOncePerPair ==
    /\ run.pc # "idle" => \A p \in AssociationPairs : run.getAll[p] <= 1
    /\ \A i \in DOMAIN runs : \A p \in AssociationPairs : runs[i].r.getAll[p] <= 1


(***************************************************************************)
(* C25: the outcome counters of the opportunity migrator.                  *)
(***************************************************************************)
\* C25: at the end of any completed run of the opportunity migrator,
\* processed = created + skippedAlreadyMapped + skippedMissingStage + errors.
C25_ProcessedIsSumOfOutcomes ==
    entity = "opportunity" =>
        \A i \in DOMAIN runs :
            runs[i].outcome = "returned" =>
                LET summary == runs[i].r.summary
                IN summary.processed = summary.created + summary.skippedAlreadyMapped
                                       + summary.skippedMissingStage + summary.errors


(***************************************************************************)
(* C26: a dry run of the contact migrator.                                 *)
(***************************************************************************)
\* the handled contacts of run r that have an email and a well-formed date
SoundContacts(r) ==
    { k \in Range(r.handled) : source[k].email /\ ~source[k].badDate }

\* C26: in a dry run of the contact migrator each contact that has an email
\* is counted exactly once as processed, is not counted as failed, and causes
\* no FailureRecord to be written.
C26_DryRunContactCountedOnce ==
    (entity = "contact" /\ runs = <<>> /\ run.pc = "fetch" /\ run.dryRun) =>
        /\ run.summary.processed = Len(run.handled)
        /\ run.summary.failed <= Len(run.handled) - Cardinality(SoundContacts(run))
        /\ \A k \in SoundContacts(run) :
              ~\E f \in failures : f.entityType = "contact" /\ f.ghlId = GhlId(k)


(***************************************************************************)
(* C27: a dry run followed by a real run.                                  *)
(***************************************************************************)
\* a record a real run of a cursor migrator creates and maps when it reaches it
Eligible(k) ==
    /\ source[k].id = "set"
    /\ source[k].create = "ok"
    /\ entity = "opportunity" => FallbackStage(FALSE)

\* a dry run over the whole stream has returned and a real run has returned after it
RealAfterDry ==
    /\ Len(runs) >= 2
    /\ runs[1].outcome = "returned" /\ runs[1].r.dryRun /\ runs[1].r.limit = 0
    /\ runs[2].outcome = "returned" /\ ~runs[2].r.dryRun /\ runs[2].r.limit = 0

RerunAfterDelete ==
    /\ entity = "opportunity"
    /\ del.pc = "done" /\ ~del.dryRun /\ del.importTag = IMPORT_TAG
    /\ del.runsAtStart = 1
    /\ \A j \in 1..del.objectsAtStart : j \in archived
    /\ Len(runs) = 2
    /\ runs[2].outcome = "returned"
    /\ ~runs[2].r.dryRun /\ ~runs[2].r.resume /\ runs[2].r.limit = 0

\* C28: after deleteDealsByImportTag (non-dry-run) has archived the migrated
\* deals, a rerun of the opportunity migrator with resume=false creates a deal
\* again for every opportunity: none is skipped because of an identity
\* mapping that points to an archived deal.
C28_RerunAfterDeleteCreatesAgain ==
    RerunAfterDelete =>
        /\ \A m \in idMap : m.objectTypeId = OBJECT_TYPE_ID => m.hubspotId \notin archived
        /\ \A k \in DOMAIN source :
              Eligible(k) =>
                  \E j \in DOMAIN hubspot :
                      /\ j \notin archived
                      /\ hubspot[j] = [objectType |-> "deals", ghlId |-> GhlId(k)]

\* C29: when a non-dry-run delete-by-import-tag operation finishes, no
\* destination object carrying the given import tag remains, for any number
\* of tagged objects, more than one search page included, archived objects
\* no longer appearing in later search pages.
C29_DeleteLeavesNoTaggedObject ==
    (del.pc = "done" /\ ~del.dryRun) =>
        \A j \in 1..del.objectsAtStart :
            (hubspot[j].objectType = del.objectType /\ del.importTag = IMPORT_TAG)
            => j \in archived


(***************************************************************************)
(* C30: the checkpoint of transferCustomFields.                            *)
(***************************************************************************)
\* the fields some finished run transferred successfully
Transferred == UNION { runs[i].r.transferred : i \in DOMAIN runs }

\* every finished run was a real run in create mode
OnlyRealTransfers ==
    \A i \in DOMAIN runs : ~runs[i].r.dryRun /\ ~runs[i].r.deleteMode

\* C30: after transferCustomFields completes, every custom field ordered at
\* or before the saved checkpoint key was transferred successfully, so that a
\* later run with resume=true never skips a field whose transfer failed.
C30_CheckpointCoversOnlyTransferred ==
    (entity = "customField" /\ run.pc = "idle" /\ Len(runs) >= 1 /\ OnlyRealTransfers) =>
        \A k \in DOMAIN source :
            k <= FieldIndex(loadCheckpoint(FIELDS_CHECKPOINT_ID).lastKey)
            => k \in Transferred


(***************************************************************************)
(* C31: termination of getOpportunities.                                   *)
(***************************************************************************)
\* C31: getOpportunities terminates, and when a page request throws it
\* returns the opportunities fetched so far: the failing request is not
\* repeated without bound on the same page.
C31_GetOpportunitiesTerminates ==
    /\ <>(Len(runs) = 1)
    /\ [](run.pc = "catch" => <>(/\ Len(runs) = 1
                                 /\ runs[1].r.opportunities = Positions(1, runs[1].r.page - 1)))


(***************************************************************************)
(* C32: a page of conversations without the `sort` field.                  *)
(***************************************************************************)
\* C32: when a full page of conversations ends with a record that lacks a
\* non-empty `sort` array, getAllConversations reports a fatal condition to
\* its caller: it does not return the conversations fetched so far as if the
\* fetch had completed.
C32_MissingSortIsFatal ==
    entity = "getAllConversations" =>
        \A i \in DOMAIN runs :
            runs[i].r.ended = "missingSort" => runs[i].outcome = "threw"


(***************************************************************************)
(* C33: ensureObjectProperty / ensureCustomObjectProperty.                 *)
(***************************************************************************)
\* the call has ended after a lookup
EnsureEnded == entity \in EnsureFunctions /\ Len(runs) = 1 /\ runs[1].r.lookups = 1

\* C33: a lookup that fails with status 404 is followed by a create; a create
\* that fails with status 409 is treated as success; any other lookup failure
\* is raised to the caller and never followed by a create, and any other
\* create failure is raised.
C33_LookupAndCreateStatuses ==
    EnsureEnded =>
        LET call == source[1]
            r == runs[1].r
        IN /\ call.lookup = 404 => r.creates = 1
           /\ call.lookup \notin {200, 404} => (r.creates = 0 /\ runs[1].outcome = "threw")
           /\ (r.creates = 1 /\ call.create = 409) => runs[1].outcome = "returned"
           /\ (r.creates = 1 /\ call.create \notin {200, 409}) => runs[1].outcome = "threw"


(***************************************************************************)
(* C34: the class of a conversation message.                               *)
(***************************************************************************)
\* the class an explicit type / channel string names, "none" when it names none
NamedBy(v) ==
    IF v.kind # "string" THEN "none"
    ELSE LET s == toLowerCase(v.str)
         IN IF s \in { <<"s", "m", "s">>, <<"t", "e", "x", "t">> } THEN "sms"
            ELSE IF s = <<"e", "m", "a", "i", "l">> THEN "email"
            ELSE IF s \in { <<"c", "a", "l", "l">>, <<"v", "o", "i", "c", "e", "m", "a", "i", "l">> } THEN "call"
            ELSE "none"

\* the class the message's explicit type / channel string names
ExplicitClass(message) ==
    IF NamedBy(message.type) # "none" THEN NamedBy(message.type)
    ELSE NamedBy(message.channel)

\* C34: each message is classified into exactly one of activity note, SMS
\* note, email or call; the class is the one named by the message's explicit
\* type/channel string when that string names one (sms/text -> SMS note,
\* email -> email, call/voicemail -> call), the numeric legacy type code being
\* used only otherwise; a message matching no class is counted in
\* skippedNonSms and creates nothing.
C34_ClassFollowsExplicitString ==
    (entity = "classifyMessage" /\ Len(runs) = 1) =>
        LET message == source[1]
            r == runs[1].r
        IN /\ r.class \in {"activity", "sms", "email", "call", "none"}
           /\ (~isActivityMessage(message) /\ ExplicitClass(message) # "none")
              => r.class = ExplicitClass(message)
           /\ r.class = "none" => (r.summary.skippedNonSms = 1 /\ r.summary.created = 0)


(***************************************************************************)
(* C35: the default pipeline and stage.                                    *)
(***************************************************************************)
\* C35: getDefaultPipelineAndStage returns the deal pipeline with the lowest
\* displayOrder and, within it, the lowest-displayOrder stage that is not
\* closed; a closed stage is never returned as the default stage.
C35_LowestPipelineLowestOpenStage ==
    (entity = "getDefaultPipelineAndStage" /\ Len(runs) = 1 /\ Len(source) > 0) =>
        LET pipelines == source
            r == runs[1].r
        IN /\ r.pipelineId \in DOMAIN pipelines
           /\ \A q \in DOMAIN pipelines :
                  pipelines[r.pipelineId].displayOrder <= pipelines[q].displayOrder
           /\ LET stages == pipelines[r.pipelineId].stages
                  open == {i \in DOMAIN stages : stages[i].isClosed # "true"}
              IN /\ r.stageId # 0 => r.stageId \in open
                 /\ open # {} =>
                        /\ r.stageId \in open
                        /\ \A i \in open :
                               stages[r.stageId].displayOrder <= stages[i].displayOrder


(***************************************************************************)
(* C36: the shape of a property name.                                      *)
(***************************************************************************)
\* C36: for every input string the result of toHubspotPropertyName contains
\* only characters of [a-z0-9_], has no two consecutive underscores, neither
\* starts nor ends with an underscore, and is at most the cap long.
C36_PropertyNameShape ==
    (entity = "toHubspotPropertyName" /\ Len(runs) = 1) =>
        LET result == runs[1].r.result
        IN /\ \A i \in DOMAIN result : IsLowerAlnum(result[i]) \/ result[i] = "_"
           /\ \A i \in 1..(Len(result) - 1) : ~(result[i] = "_" /\ result[i + 1] = "_")
           /\ result # <<>> => (result[1] # "_" /\ result[Len(result)] # "_")
           /\ Len(result) <= source[1].cap


(***************************************************************************)
(* C37: the option values of a picklist.                                   *)
(***************************************************************************)
\* the value a label slugifies to, <<>> when nothing is left of it
Slug(label) == toHubspotPropertyName(label, PropertyNameCap)

\* the value ends with an underscore and a digit
HasNumericSuffix(value) ==
    /\ Len(value) >= 2
    /\ value[Len(value) - 1] = "_"
    /\ \E n \in DOMAIN DigitCharacters : DigitCharacters[n] = value[Len(value)]

\* mapGhlFieldToHubspotProperty has returned the property of a select or multi-select field
MappedPicklist ==
    /\ entity = "mapFieldDefinition"
    /\ Len(runs) = 1
    /\ source[1].function = "mapGhlFieldToHubspotProperty"
    /\ runs[1].r.type = "enumeration"

DistinctOptionValues ==
    MappedPicklist =>
        LET picklist == source[1].picklistOptions
            options == runs[1].r.options
        IN /\ Len(options) = Len(picklist)
           /\ \A i \in DOMAIN options :
                  /\ options[i].label = picklist[i]
                  /\ options[i].value # <<>>
           /\ \A i, j \in DOMAIN options : i # j => options[i].value # options[j].value
           /\ \A i, j \in DOMAIN options :
                  (i < j /\ Slug(picklist[i]) # <<>> /\ Slug(picklist[i]) = Slug(picklist[j]))
                  => (options[j].value # Slug(picklist[j]) /\ HasNumericSuffix(options[j].value))

\* C37: for every picklist of a select or multi-select field the option values
\* produced by mapGhlFieldToHubspotProperty are pairwise distinct and
\* non-empty; when two labels slugify to the same value the later option gets
\* a numeric suffix; and the de-duplication loop terminates.
C37_DistinctOptionValues ==
    /\ []DistinctOptionValues
    /\ [](run.pc = "while" => <>(run.pc # "while"))
    /\ <>(Len(runs) = 1)

\* a picklist whose third label collides twice: the loop has run two iterations
C37_Witness ==
    /\ MappedPicklist
    /\ Len(runs[1].r.options) = 3
    /\ runs[1].r.iterations = 2
    /\ Slug(source[1].picklistOptions[1]) = Slug(source[1].picklistOptions[3])

(***************************************************************************)
(* C38: the property of a boolean field.                                   *)
(***************************************************************************)
\* the field definition is of boolean data type
IsBooleanField(field) ==
    IF field.function = "mapGhlFieldToHubspotProperty"
    THEN DataTypeOf(field) = <<"C", "H", "E", "C", "K", "B", "O", "X">>
    ELSE toLowerCase(field.type) \in { <<"b", "o", "o", "l", "e", "a", "n">>, <<"b", "o", "o", "l">> }

\* C38: for a source field definition of boolean (CHECKBOX) data type the
\* field-to-property mapping yields a destination property of type
\* enumeration carrying exactly the two literal options True and False.
C38_BooleanIsTrueFalseEnumeration ==
    (entity = "mapFieldDefinition" /\ Len(runs) = 1 /\ IsBooleanField(source[1])) =>
        /\ runs[1].r.type = "enumeration"
        /\ \E first, second \in {"true", "false"} :
               /\ first # second
               /\ Len(runs[1].r.options) = 2
               /\ runs[1].r.options[1] = (IF first = "true" THEN TrueFalseOptions[1]
                                          ELSE TrueFalseOptions[2])
               /\ runs[1].r.options[2] = (IF second = "true" THEN TrueFalseOptions[1]
                                          ELSE TrueFalseOptions[2])
====
